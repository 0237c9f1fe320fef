-------------------------- MODULE AuctionPriceProofs --------------------------
(* Theorems about the price of Auction, the sums of the bids behind it and *)
(* the bid that leads.                                                     *)
EXTENDS AuctionProofs

-----------------------------------------------------------------------------
(* Sums over a finite set: t is the sum of w over D when some function f   *)
(* gives every subset of D its sum.  What a step does to a sum is shown by *)
(* changing f, with no induction on the set.                               *)

\* f[S] is the sum of w over S: it grows by w[x] with x, is zero over zeroes and
\* keeps the sign of what is summed.
IsSum(D, w, f) ==
  /\ f \in [SUBSET D -> Int]
  /\ \A S \in SUBSET D :
       /\ \A x \in S : f[S] = f[S \ {x}] + w[x]
       /\ (\A x \in S : w[x] = 0) => f[S] = 0
       /\ (\A x \in S : w[x] >= 0) => f[S] >= 0

SumsTo(D, w, t) == \E f : IsSum(D, w, f) /\ f[D] = t

LEMMA SumOfZeroes ==
  ASSUME NEW D, NEW w, \A x \in D : w[x] = 0
  PROVE  SumsTo(D, w, 0)
<1> DEFINE f == [S \in SUBSET D |-> 0]
<1>1. IsSum(D, w, f)
  BY DEF IsSum
<1> QED BY <1>1 DEF SumsTo

\* What a sum gains when one term changes.
LEMMA SumMoves ==
  ASSUME NEW D, NEW w, NEW v, NEW t \in Int, NEW x \in D, SumsTo(D, w, t),
         w[x] \in Int, v[x] \in Int, \A y \in D \ {x} : v[y] = w[y] /\ w[y] \in Int
  PROVE  SumsTo(D, v, t + (v[x] - w[x]))
<1>1. PICK f : IsSum(D, w, f) /\ f[D] = t
  BY DEF SumsTo
<1>2. f \in [SUBSET D -> Int]
  BY <1>1 DEF IsSum
<1> DEFINE d == v[x] - w[x]
           g == [S \in SUBSET D |-> f[S] + (IF x \in S THEN d ELSE 0)]
<1>3. d \in Int
  OBVIOUS
<1> HIDE DEF d
<1>4. g \in [SUBSET D -> Int]
  BY <1>2, <1>3
<1>5. ASSUME NEW S \in SUBSET D PROVE f[S] \in Int /\ g[S] = f[S] + (IF x \in S THEN d ELSE 0)
  BY <1>2
<1> HIDE DEF g
<1>6. ASSUME NEW S \in SUBSET D, NEW y \in S PROVE g[S] = g[S \ {y}] + v[y]
  <2>1. f[S] = f[S \ {y}] + w[y] /\ S \ {y} \in SUBSET D
    BY <1>1 DEF IsSum
  <2>2. f[S] \in Int /\ f[S \ {y}] \in Int /\ g[S] = f[S] + (IF x \in S THEN d ELSE 0)
        /\ g[S \ {y}] = f[S \ {y}] + (IF x \in S \ {y} THEN d ELSE 0)
    BY <1>5, <2>1
  <2>3. CASE y = x
    BY <1>3, <2>1, <2>2, <2>3 DEF d
  <2>4. CASE y # x
    BY <1>3, <2>1, <2>2, <2>4
  <2> QED BY <2>3, <2>4
<1>7. ASSUME NEW S \in SUBSET D, \A y \in S : v[y] = 0 PROVE g[S] = 0
  <2>1. CASE x \in S
    <3>1. f[S \ {x}] = 0 /\ f[S] = f[S \ {x}] + w[x]
      BY <1>1, <1>7, <2>1 DEF IsSum
    <3>2. g[S] = f[S] + d /\ v[x] = 0 /\ d = v[x] - w[x]
      BY <1>5, <1>7, <2>1 DEF d
    <3> QED BY <3>1, <3>2
  <2>2. CASE x \notin S
    <3>1. f[S] = 0
      BY <1>1, <1>7, <2>2 DEF IsSum
    <3> QED BY <1>5, <2>2, <3>1
  <2> QED BY <2>1, <2>2
<1>8. ASSUME NEW S \in SUBSET D, \A y \in S : v[y] >= 0 PROVE g[S] >= 0
  <2>1. CASE x \in S
    <3>1. f[S \ {x}] >= 0 /\ f[S] = f[S \ {x}] + w[x] /\ f[S \ {x}] \in Int
      BY <1>1, <1>2, <1>8, <2>1 DEF IsSum
    <3> QED BY <1>3, <1>5, <1>8, <2>1, <3>1 DEF d
  <2>2. CASE x \notin S
    <3>1. f[S] >= 0
      BY <1>1, <1>8, <2>2 DEF IsSum
    <3> QED BY <1>5, <2>2, <3>1
  <2> QED BY <2>1, <2>2
<1>9. IsSum(D, v, g)
  BY <1>4, <1>6, <1>7, <1>8 DEF IsSum
<1>10. g[D] = t + (v[x] - w[x])
  BY <1>1, <1>5 DEF d
<1> QED BY <1>9, <1>10 DEF SumsTo

\* A sum whose terms do not change does not.
LEMMA SumStays ==
  ASSUME NEW D, NEW w, NEW v, NEW t, SumsTo(D, w, t), \A x \in D : v[x] = w[x]
  PROVE  SumsTo(D, v, t)
<1>1. PICK f : IsSum(D, w, f) /\ f[D] = t
  BY DEF SumsTo
<1>2. IsSum(D, v, f)
  <2>1. ASSUME NEW S \in SUBSET D PROVE \A x \in S : v[x] = w[x]
    OBVIOUS
  <2> QED BY <1>1, <2>1 DEF IsSum
<1> QED BY <1>1, <1>2 DEF SumsTo

\* All terms but one are zero.
LEMMA SumOfOne ==
  ASSUME NEW D, NEW w, NEW t, NEW x \in D, SumsTo(D, w, t), w[x] \in Int,
         \A y \in D \ {x} : w[y] = 0
  PROVE  t = w[x]
<1>1. PICK f : IsSum(D, w, f) /\ f[D] = t
  BY DEF SumsTo
<1>2. f[D] = f[D \ {x}] + w[x] /\ f[D \ {x}] = 0
  BY <1>1 DEF IsSum
<1> QED BY <1>1, <1>2

LEMMA SumOfNone ==
  ASSUME NEW D, NEW w, NEW t, SumsTo(D, w, t), \A y \in D : w[y] = 0
  PROVE  t = 0
<1>1. PICK f : IsSum(D, w, f) /\ f[D] = t
  BY DEF SumsTo
<1> QED BY <1>1 DEF IsSum

\* No term is negative: the sum is at least any one of them.
LEMMA SumAtLeast ==
  ASSUME NEW D, NEW w, NEW t, SumsTo(D, w, t), \A y \in D : w[y] \in Int /\ w[y] >= 0
  PROVE  t >= 0 /\ \A x \in D : t >= w[x]
<1>1. PICK f : IsSum(D, w, f) /\ f[D] = t
  BY DEF SumsTo
<1>2. t >= 0
  BY <1>1 DEF IsSum
<1>3. ASSUME NEW x \in D PROVE t >= w[x]
  <2>1. f[D] = f[D \ {x}] + w[x] /\ f[D \ {x}] >= 0 /\ f[D \ {x}] \in Int
    BY <1>1 DEF IsSum
  <2> QED BY <1>1, <2>1
<1> QED BY <1>2, <1>3

-----------------------------------------------------------------------------
(* Every row of bids is inserted once.                                     *)

\* A refund's row is inserted by the one pass that closes the auction, once.
RefundInv ==
  /\ (\E b \in Bidders : bid[b].status # "none") =>
       auction \in {"withdrawing", "ended"} /\ ~stopper /\ closer.pc \notin {"picked", "marked"}
  /\ closer.pc \in {"alone", "refunding", "awaiting"} =>
       \A b \in closer.losers : bid[b].status = "none"
  /\ closer.pc = "awaiting" =>
       bid[closer.current].status = "minting" /\ closer.current \notin closer.losers

LEMMA RefundInit == Init => RefundInv
  BY DEF Init, RefundInv, IdleCloser, Rows

LEMMA RefundFrame ==
  ASSUME RefundInv, \A b \in Bidders : bid'[b] = bid[b], UNCHANGED <<auction, stopper, closer>>,
         TypeInv
  PROVE  RefundInv'
<1>1. closer.losers \subseteq Bidders /\ (closer.pc = "awaiting" => closer.current \in Bidders)
  BY DEF TypeInv, TypeOK, CloserType, WinnerKnown
<1> QED BY <1>1 DEF RefundInv

LEMMA RefundStep == TypeInv /\ OnceInv /\ RefundInv /\ [Next]_vars => RefundInv'
<1> SUFFICES ASSUME TypeInv, OnceInv, RefundInv, [Next]_vars PROVE RefundInv'
  OBVIOUS
<1> closer \in CloserType /\ IdleCloser.pc = "idle" /\ bid \in [Rows -> BidType]
  BY DEF TypeInv, TypeOK, IdleCloser
<1> Bidders \subseteq Rows /\ closer.losers \subseteq Bidders
    /\ (closer.pc = "awaiting" => closer.current \in Bidders)
  BY DEF TypeInv, TypeOK, CloserType, WinnerKnown, Rows
<1>1. ASSUME NEW r \in Requests, Handle(r) PROVE RefundInv'
  <2>1. \A b \in Bidders : b # r
    BY ConstantsAssumption
  <2>2. \A b \in Bidders : bid'[b] = bid[b]
    BY <1>1, <2>1 DEF Handle, PlaceCommit, Succeed, PlaceFailBegin, PlaceFailCommit, WithdrawCommit,
          WithdrawFail, CancelCommit, CancelReturn, Abort, InsertBid, FinishBid, FailBid, db, ledger
  <2>3. UNCHANGED <<stopper, closer>> /\ auction' \in {auction, "ended"}
    BY <1>1 DEF Handle, PlaceCommit, Succeed, PlaceFailBegin, PlaceFailCommit, WithdrawCommit,
          WithdrawFail, CancelCommit, CancelReturn, Abort, db, escrow
  <2> QED BY <2>2, <2>3 DEF RefundInv
<1>2. ASSUME NEW r \in Requests,
             \/ \E b \in Bidders, a \in Offers : PlaceBegin(r, b, a)
             \/ \E b \in Bidders : WithdrawBegin(r, b)
             \/ CancelBegin(r)
      PROVE  RefundInv'
  BY <1>2, RefundFrame DEF PlaceBegin, WithdrawBegin, CancelBegin, db, ledger, escrow
<1>3. CASE StopFind \/ StopWrite \/ ClosePick
  BY <1>3 DEF StopFind, StopWrite, ClosePick, RefundInv, OnceInv, CloserType, db, ledger
<1>4. CASE CloseMark \/ CloseUnsold
  BY <1>4 DEF CloseMark, CloseUnsold, CancelAsk, RefundInv, OnceInv, CloserType, db, ledger
<1>5. ASSUME NEW w \in Bidders, CloseWithWinner(w) PROVE RefundInv'
  <2>1. bid' = bid /\ closer.pc = "marked" /\ closer'.pc \in {"alone", "refunding"}
        /\ closer'.losers = Bidding({"finished"}) \ {w}
    BY <1>5 DEF CloseWithWinner, CloserType, ledger
  <2>2. \A b \in Bidders : bid[b].status = "none"
    BY <2>1 DEF RefundInv
  <2>3. Bidding({"finished"}) \subseteq Bidders
    BY DEF Bidding, TypeInv, BiddersKnown, Live
  <2> QED BY <2>1, <2>2, <2>3 DEF RefundInv
<1>6. ASSUME NEW b \in Bidders, Refund(b) PROVE RefundInv'
  <2>1. closer.pc = "refunding" /\ closer'.pc \in {"refunding", "awaiting"} /\ b \in closer.losers
        /\ closer'.losers = closer.losers \ {b} /\ (closer'.pc = "awaiting" => closer'.current = b)
        /\ UNCHANGED <<auction, stopper>>
    BY <1>6 DEF Refund, Leaders, CloserType
  <2>2. bid'[b].status = "minting" /\ \A c \in Bidders \ {b} : bid'[c] = bid[c]
    BY <1>6 DEF Refund, InsertBid
  <2>3. ~stopper /\ auction \notin {"active", "stopped"}
    BY <2>1 DEF OnceInv
  <2>4. auction \in {"withdrawing", "ended"}
    BY <2>3 DEF TypeInv, TypeOK
  <2> QED BY <2>1, <2>2, <2>3, <2>4 DEF RefundInv
<1>7. ASSUME NEW b \in Bidders, NothingToRefund(b) PROVE RefundInv'
  BY <1>7 DEF NothingToRefund, RefundInv, CloserType, db, ledger
<1>8. CASE RefundEnd
  <2>1. closer.pc = "awaiting" /\ closer'.pc = "refunding" /\ closer'.losers = closer.losers
        /\ UNCHANGED <<auction, stopper>>
    BY <1>8 DEF RefundEnd, CloserType
  <2>2. \A c \in Bidders \ {closer.current} : bid'[c] = bid[c]
    BY <1>8 DEF RefundEnd, FinishBid, FailBid
  <2> QED BY <2>1, <2>2 DEF RefundInv
<1>9. CASE SendToken \/ PaySeller \/ PayFails \/ BuyAsk \/ EndSale \/ RecordSale
           \/ ReturnUnsold \/ CloserCrash
  <2>1. bid' = bid /\ closer'.pc \in {"idle", "paying", "recording", "bought", "trading"}
    BY <1>9 DEF SendToken, PaySeller, PayFails, BuyAsk, EndSale, RecordSale, ReturnUnsold,
                CloserCrash, CloserType, db, ledger
  <2>2. (~stopper => ~stopper') /\ auction' \in {auction, "ended"}
    BY <1>9 DEF SendToken, PaySeller, PayFails, BuyAsk, EndSale, RecordSale, ReturnUnsold,
                CloserCrash, db
  <2> QED BY <2>1, <2>2 DEF RefundInv
<1>10. ASSUME NEW x \in Rows, Execute(x) \/ Drop(x) PROVE RefundInv'
  BY <1>10, RefundFrame DEF Execute, Drop, db, ledger, escrow
<1>11. CASE ApiCrash \/ UNCHANGED vars
  BY <1>11, RefundFrame DEF ApiCrash, vars, db, ledger, escrow
<1>12. CASE EndAtOnce
  BY <1>12 DEF EndAtOnce, RefundInv, OnceInv, CloserType, ledger
<1> QED BY <1>1, <1>2, <1>3, <1>4, <1>5, <1>6, <1>7, <1>8, <1>9, <1>10, <1>11, <1>12
        DEF Next, Close

-----------------------------------------------------------------------------
(* The sums are sums of the rows.                                          *)

\* What a step does to the rows of bids, each of which is inserted once.
LEMMA LedgerSteps ==
  ASSUME TypeInv, BidsInv, RefundInv, [Next]_vars
  PROVE  \/ UNCHANGED ledger
         \/ \E x \in Rows, b \in Bidders, a \in Int : InsertBid(x, b, a) /\ bid[x].status = "none"
         \/ \E x \in Rows : (FinishBid(x) \/ FailBid(x)) /\ bid[x].status = "minting"
<1> USE DEF ledger, db
<1>1. ASSUME NEW r \in Requests,
             \/ \E b \in Bidders, a \in Offers : PlaceBegin(r, b, a)
             \/ \E b \in Bidders : WithdrawBegin(r, b)
             \/ CancelBegin(r) \/ PlaceFailBegin(r) \/ CancelCommit(r) \/ CancelReturn(r) \/ Abort(r)
      PROVE  UNCHANGED ledger
  BY <1>1 DEF PlaceBegin, WithdrawBegin, CancelBegin, PlaceFailBegin, CancelCommit, CancelReturn, Abort
<1>2. ASSUME NEW r \in Requests, PlaceCommit(r) \/ WithdrawCommit(r)
      PROVE  \E x \in Rows, b \in Bidders, a \in Int : InsertBid(x, b, a) /\ bid[x].status = "none"
  <2>1. r \in Rows /\ req[r].bidder \in Bidders /\ req[r].amount \in Int
    BY <1>2 DEF PlaceCommit, WithdrawCommit, TypeInv, TypeOK, AskersKnown, RequestType, Rows
  <2> QED BY <1>2, <2>1 DEF PlaceCommit, WithdrawCommit, BidsInv
<1>3. ASSUME NEW r \in Requests, Succeed(r) \/ PlaceFailCommit(r) \/ WithdrawFail(r)
      PROVE  \E x \in Rows : (FinishBid(x) \/ FailBid(x)) /\ bid[x].status = "minting"
  <2>1. r \in Rows /\ bid[r].status = "minting"
    BY <1>3 DEF Succeed, PlaceFailCommit, WithdrawFail, BidsInv, Rows
  <2> QED BY <1>3, <2>1 DEF Succeed, PlaceFailCommit, WithdrawFail
<1>4. CASE \/ StopFind \/ StopWrite \/ ClosePick \/ CloseMark \/ CloseUnsold \/ SendToken
           \/ PaySeller \/ PayFails \/ EndAtOnce \/ BuyAsk \/ EndSale \/ RecordSale
           \/ ReturnUnsold \/ ApiCrash \/ CloserCrash
  BY <1>4 DEF StopFind, StopWrite, ClosePick, CloseMark, CloseUnsold, SendToken, PaySeller,
              PayFails, EndAtOnce, BuyAsk, EndSale, RecordSale, ReturnUnsold, ApiCrash,
              CloserCrash
<1>5. ASSUME NEW b \in Bidders, CloseWithWinner(b) \/ NothingToRefund(b) PROVE UNCHANGED ledger
  BY <1>5 DEF CloseWithWinner, NothingToRefund
<1>6. ASSUME NEW b \in Bidders, Refund(b)
      PROVE  \E x \in Rows, c \in Bidders, a \in Int : InsertBid(x, c, a) /\ bid[x].status = "none"
  <2>1. b \in Rows /\ -closer.owed[b] \in Int
    BY DEF Rows, TypeInv, TypeOK, CloserType
  <2>2. bid[b].status = "none"
    BY <1>6 DEF Refund, Leaders, RefundInv
  <2> QED BY <1>6, <2>1, <2>2 DEF Refund
<1>7. CASE RefundEnd
  <2>1. closer.current \in Rows /\ bid[closer.current].status = "minting"
    BY <1>7 DEF RefundEnd, RefundInv, TypeInv, WinnerKnown, Rows
  <2> QED BY <1>7, <2>1 DEF RefundEnd
<1>8. ASSUME NEW x \in Rows, Execute(x) \/ Drop(x) PROVE UNCHANGED ledger
  BY <1>8 DEF Execute, Drop
<1>9. CASE UNCHANGED vars
  BY <1>9 DEF vars
<1> QED BY <1>1, <1>2, <1>3, <1>4, <1>5, <1>6, <1>7, <1>8, <1>9 DEF Next, Handle, Close

\* What row x counts for in the sum of b's bids with a status in S.
Share(S, b) ==
  [x \in Rows |-> IF bid[x].status \in S /\ bid[x].bidder = b THEN bid[x].amount ELSE 0]

SumsInv ==
  \A b \in Bidders : /\ SumsTo(Rows, Share({"finished"}, b), finished[b])
                     /\ SumsTo(Rows, Share({"minting"}, b), minting[b])
                     /\ SumsTo(Rows, Share(Live, b), PendingSum[b])

LEMMA SumsInit == Init => SumsInv
<1> SUFFICES ASSUME Init, NEW b \in Bidders
             PROVE  /\ SumsTo(Rows, Share({"finished"}, b), finished[b])
                    /\ SumsTo(Rows, Share({"minting"}, b), minting[b])
                    /\ SumsTo(Rows, Share(Live, b), PendingSum[b])
  BY DEF SumsInv
<1>1. finished[b] = 0 /\ minting[b] = 0 /\ PendingSum[b] = 0
  BY DEF Init, PendingSum
<1>2. ASSUME NEW S, "none" \notin S PROVE \A x \in Rows : Share(S, b)[x] = 0
  BY <1>2 DEF Init, Share
<1>3. \A S : "none" \notin S => SumsTo(Rows, Share(S, b), 0)
  BY <1>2, SumOfZeroes
<1> QED BY <1>1, <1>3 DEF Live

\* A sum follows the one row that a step changes.
LEMMA SumFollows ==
  ASSUME bid \in [Rows -> BidType], bid' \in [Rows -> BidType], NEW x \in Rows,
         \A y \in Rows \ {x} : bid'[y] = bid[y],
         NEW S, NEW b \in Bidders, NEW t \in Int, SumsTo(Rows, Share(S, b), t)
  PROVE  SumsTo(Rows, Share(S, b)', t + (Share(S, b)'[x] - Share(S, b)[x]))
<1>1. \A y \in Rows : Share(S, b)[y] \in Int /\ Share(S, b)'[y] \in Int
  BY DEF Share, BidType
<1>2. \A y \in Rows \ {x} : Share(S, b)'[y] = Share(S, b)[y]
  BY DEF Share
<1> QED BY <1>1, <1>2, SumMoves

LEMMA SumsStep == TypeInv /\ BidsInv /\ RefundInv /\ SumsInv /\ [Next]_vars => SumsInv'
<1> SUFFICES ASSUME TypeInv, BidsInv, RefundInv, SumsInv, [Next]_vars, NEW c \in Bidders
             PROVE  /\ SumsTo(Rows, Share({"finished"}, c)', finished'[c])
                    /\ SumsTo(Rows, Share({"minting"}, c)', minting'[c])
                    /\ SumsTo(Rows, Share(Live, c)', PendingSum'[c])
  BY DEF SumsInv
<1> LedgerOK /\ LedgerOK'
  BY TypeStep DEF TypeInv, TypeOK, LedgerOK
<1> USE DEF LedgerOK
<1>s. /\ SumsTo(Rows, Share({"finished"}, c), finished[c])
      /\ SumsTo(Rows, Share({"minting"}, c), minting[c])
      /\ SumsTo(Rows, Share(Live, c), PendingSum[c])
      /\ finished[c] \in Int /\ minting[c] \in Int
      /\ PendingSum[c] = finished[c] + minting[c] /\ PendingSum'[c] = finished'[c] + minting'[c]
  BY DEF SumsInv, PendingSum
<1>1. CASE UNCHANGED ledger
  <2>1. \A S : Share(S, c)' = Share(S, c)
    BY <1>1 DEF ledger, Share
  <2> QED BY <1>1, <1>s, <2>1 DEF ledger
<1>2. ASSUME NEW x \in Rows, \A y \in Rows \ {x} : bid'[y] = bid[y],
             NEW d \in Int, NEW e \in Int, finished'[c] = finished[c] + d, minting'[c] =
             minting[c] + e, Share({"finished"}, c)'[x] - Share({"finished"}, c)[x] = d,
             Share({"minting"}, c)'[x] - Share({"minting"}, c)[x] = e, Share(Live, c)'[x] -
             Share(Live, c)[x] = d + e
      PROVE  /\ SumsTo(Rows, Share({"finished"}, c)', finished'[c])
             /\ SumsTo(Rows, Share({"minting"}, c)', minting'[c])
             /\ SumsTo(Rows, Share(Live, c)', PendingSum'[c])
  <2>1. SumsTo(Rows, Share({"finished"}, c)', finished[c] + d)
    BY <1>2, <1>s, SumFollows
  <2>2. SumsTo(Rows, Share({"minting"}, c)', minting[c] + e)
    BY <1>2, <1>s, SumFollows
  <2>3. SumsTo(Rows, Share(Live, c)', PendingSum[c] + (d + e))
    <3>1. PendingSum[c] \in Int
      BY <1>s
    <3> QED BY <1>2, <1>s, <3>1, SumFollows
  <2>4. PendingSum[c] + (d + e) = PendingSum'[c]
    BY <1>2, <1>s
  <2> QED BY <1>2, <2>1, <2>2, <2>3, <2>4
<1>3. ASSUME NEW x \in Rows, NEW b \in Bidders, NEW a \in Int, InsertBid(x, b, a),
             bid[x].status = "none"
      PROVE  /\ SumsTo(Rows, Share({"finished"}, c)', finished'[c])
             /\ SumsTo(Rows, Share({"minting"}, c)', minting'[c])
             /\ SumsTo(Rows, Share(Live, c)', PendingSum'[c])
  <2> DEFINE e == IF b = c THEN a ELSE 0
  <2>1. /\ \A y \in Rows \ {x} : bid'[y] = bid[y]
        /\ bid'[x] = [status |-> "minting", bidder |-> b, amount |-> a]
        /\ finished'[c] = finished[c] /\ minting'[c] = minting[c] + e
    BY <1>3 DEF InsertBid
  <2>2. /\ Share({"finished"}, c)'[x] = 0 /\ Share({"finished"}, c)[x] = 0
        /\ Share({"minting"}, c)'[x] = e /\ Share({"minting"}, c)[x] = 0
        /\ Share(Live, c)'[x] = e /\ Share(Live, c)[x] = 0
    BY <1>3, <2>1 DEF Share, Live
  <2>3. e \in Int
    OBVIOUS
  <2> HIDE DEF e
  <2>4. finished'[c] = finished[c] + 0
    BY <1>s, <2>1
  <2> QED BY <1>2, <2>1, <2>2, <2>3, <2>4
<1>4. ASSUME NEW x \in Rows, FinishBid(x), bid[x].status = "minting"
      PROVE  /\ SumsTo(Rows, Share({"finished"}, c)', finished'[c])
             /\ SumsTo(Rows, Share({"minting"}, c)', minting'[c])
             /\ SumsTo(Rows, Share(Live, c)', PendingSum'[c])
  <2> DEFINE e == IF bid[x].bidder = c THEN bid[x].amount ELSE 0
  <2>1. bid[x] \in BidType /\ bid[x].amount \in Int
    BY DEF BidType
  <2>2. /\ \A y \in Rows \ {x} : bid'[y] = bid[y]
        /\ bid'[x].status = "finished" /\ bid'[x].bidder = bid[x].bidder /\ bid'[x].amount = bid[x].amount
    BY <1>4, <2>1 DEF FinishBid, BidType
  <2>3. finished'[c] = finished[c] + e /\ minting'[c] = minting[c] + (-e)
    BY <1>4, <1>s, <2>1 DEF FinishBid
  <2>4. /\ Share({"finished"}, c)'[x] = e /\ Share({"finished"}, c)[x] = 0
        /\ Share({"minting"}, c)'[x] = 0 /\ Share({"minting"}, c)[x] = e
        /\ Share(Live, c)'[x] = e /\ Share(Live, c)[x] = e
    BY <1>4, <2>2 DEF Share, Live
  <2>5. e \in Int
    BY <2>1
  <2> HIDE DEF e
  <2> QED BY <1>2, <2>2, <2>3, <2>4, <2>5
<1>5. ASSUME NEW x \in Rows, FailBid(x), bid[x].status = "minting"
      PROVE  /\ SumsTo(Rows, Share({"finished"}, c)', finished'[c])
             /\ SumsTo(Rows, Share({"minting"}, c)', minting'[c])
             /\ SumsTo(Rows, Share(Live, c)', PendingSum'[c])
  <2> DEFINE e == IF bid[x].bidder = c THEN bid[x].amount ELSE 0
  <2>1. bid[x] \in BidType /\ bid[x].amount \in Int
    BY DEF BidType
  <2>2. /\ \A y \in Rows \ {x} : bid'[y] = bid[y]
        /\ bid'[x].status = "error"
    BY <1>5, <2>1 DEF FailBid, BidType
  <2>3. finished'[c] = finished[c] + 0 /\ minting'[c] = minting[c] + (-e)
    BY <1>5, <1>s, <2>1 DEF FailBid
  <2>4. /\ Share({"finished"}, c)'[x] = 0 /\ Share({"finished"}, c)[x] = 0
        /\ Share({"minting"}, c)'[x] = 0 /\ Share({"minting"}, c)[x] = e
        /\ Share(Live, c)'[x] = 0 /\ Share(Live, c)[x] = e
    BY <1>5, <2>2 DEF Share, Live
  <2>5. e \in Int
    BY <2>1
  <2> HIDE DEF e
  <2> QED BY <1>2, <2>2, <2>3, <2>4, <2>5
<1> QED BY <1>1, <1>3, <1>4, <1>5, LedgerSteps

(* The two numbers that the code computes as SUM(amount) of the finished   *)
(* and of the minting rows are those sums in every state, so that they are *)
(* no state of their own, and their total sums up the rows that count.     *)
THEOREM SumsAreOfRows == Spec => []SumsInv
<1>1. Init => TypeInv /\ OnceInv /\ BidsInv /\ RefundInv /\ SumsInv
  BY TypeInit, OnceInit, BidsInit, RefundInit, SumsInit
<1>2. TypeInv /\ OnceInv /\ BidsInv /\ RefundInv /\ SumsInv /\ [Next]_vars
        => (TypeInv /\ OnceInv /\ BidsInv /\ RefundInv /\ SumsInv)'
  BY TypeStep, OnceStep, BidsStep, RefundStep, SumsStep
<1> QED BY <1>1, <1>2, PTL DEF Spec

-----------------------------------------------------------------------------
(* What an open transaction that can still write the ask knows.            *)

\* The price is written by these alone, and everybody else's transaction misses it.
Repriced == \E r \in Requests : PlaceCommit(r) \/ PlaceFailCommit(r)

\* Nothing of q has changed, except that it may have missed an update.
Resumed(q) ==
  /\ req'[q].pc = req[q].pc /\ req'[q].kind = req[q].kind /\ req'[q].bidder = req[q].bidder
  /\ req'[q].amount = req[q].amount /\ req'[q].price = req[q].price
  /\ req[q].missed \subseteq req'[q].missed

LEMMA RepricedIsMissed ==
  ASSUME TypeInv, Repriced, NEW q \in Requests, InTransaction(q)'
  PROVE  "ask" \in req'[q].missed
<1> req \in [Requests -> RequestType]
  BY DEF TypeInv, TypeOK
<1>1. PICK r \in Requests, s \in RequestType : MoveOn(r, s, {"ask"}) /\ s.pc \in {"sent", "done"}
  <2>1. PICK r \in Requests : PlaceCommit(r) \/ PlaceFailCommit(r)
    BY DEF Repriced
  <2>2. [req[r] EXCEPT !.pc = "sent", !.missed = {}] \in RequestType
        /\ [req[r] EXCEPT !.pc = "sent", !.missed = {}].pc = "sent"
    BY DEF RequestType
  <2> QED BY <2>1, <2>2, RestingTypes DEF PlaceCommit, PlaceFailCommit
<1>2. req'[r] = s /\ \A p \in Requests \ {r} : req'[p] = Missing({"ask"})[p]
  BY <1>1, MoveOnKeeps
<1>3. q # r /\ req'[q] = Missing({"ask"})[q]
  BY <1>1, <1>2 DEF InTransaction
<1>4. Missing({"ask"})[q].pc = req[q].pc
  BY MissingKeeps
<1>5. InTransaction(q)
  BY <1>3, <1>4 DEF InTransaction
<1>6. Missing({"ask"})[q].missed = req[q].missed \cup {"ask"}
  BY <1>5 DEF Missing, RequestType
<1> QED BY <1>3, <1>6

\* What one step may do to a request, in full.
LEMMA RequestMoves ==
  ASSUME TypeInv, [Next]_vars, NEW q \in Requests
  PROVE  \/ Resumed(q)
         \/ req'[q] = DoneRequest
         \/ \E b \in Bidders, a \in Offers : PlaceBegin(q, b, a)
         \/ \E b \in Bidders : WithdrawBegin(q, b)
         \/ CancelBegin(q) \/ PlaceFailBegin(q)
         \/ PlaceCommit(q) /\ req'[q] = [req[q] EXCEPT !.pc = "sent", !.missed = {}]
         \/ WithdrawCommit(q) /\ req'[q] = [req[q] EXCEPT !.pc = "sent", !.missed = {}]
         \/ CancelCommit(q) /\ req'[q] = [req[q] EXCEPT !.pc = "returning", !.missed = {}]
<1> req \in [Requests -> RequestType]
  BY DEF TypeInv, TypeOK
<1>b. ASSUME NEW rows \in SUBSET {"ask", "auction"}, req'[q] = Missing(rows)[q] PROVE Resumed(q)
  <2>1. /\ Missing(rows)[q].pc = req[q].pc /\ Missing(rows)[q].kind = req[q].kind
        /\ Missing(rows)[q].bidder = req[q].bidder /\ Missing(rows)[q].amount = req[q].amount
        /\ Missing(rows)[q].price = req[q].price /\ req[q].missed \subseteq Missing(rows)[q].missed
    BY MissingKeeps
  <2> QED BY <1>b, <2>1 DEF Resumed
<1>c. ASSUME NEW rows \in SUBSET {"ask", "auction"}, NEW r \in Requests, NEW s \in RequestType,
             MoveOn(r, s, rows)
      PROVE  IF q = r THEN req'[q] = s ELSE Resumed(q)
  <2>1. req'[r] = s /\ \A p \in Requests \ {r} : req'[p] = Missing(rows)[p]
    BY <1>c, MoveOnKeeps
  <2> QED BY <1>b, <2>1
<1>d. ASSUME req'[q] = req[q] PROVE Resumed(q)
  BY <1>d DEF Resumed
<1>1. ASSUME NEW r \in Requests, NEW b \in Bidders, NEW a \in Offers, PlaceBegin(r, b, a)
      PROVE  Resumed(q) \/ PlaceBegin(q, b, a)
  BY <1>1, <1>d DEF PlaceBegin
<1>2. ASSUME NEW r \in Requests, NEW b \in Bidders, WithdrawBegin(r, b)
      PROVE  Resumed(q) \/ WithdrawBegin(q, b)
  BY <1>2, <1>d DEF WithdrawBegin
<1>3. ASSUME NEW r \in Requests, CancelBegin(r) PROVE Resumed(q) \/ CancelBegin(q)
  BY <1>3, <1>d DEF CancelBegin
<1>4. ASSUME NEW r \in Requests, PlaceFailBegin(r) PROVE Resumed(q) \/ PlaceFailBegin(q)
  <2>1. q # r => req'[q] = req[q]
    BY <1>4 DEF PlaceFailBegin
  <2> QED BY <1>4, <1>d, <2>1
<1>5. ASSUME NEW r \in Requests, Succeed(r) \/ WithdrawFail(r) \/ Abort(r)
      PROVE  Resumed(q) \/ req'[q] = DoneRequest
  BY <1>5, <1>d DEF Succeed, WithdrawFail, Abort
<1>6. ASSUME NEW r \in Requests, PlaceCommit(r)
      PROVE  \/ Resumed(q)
             \/ PlaceCommit(q) /\ req'[q] = [req[q] EXCEPT !.pc = "sent", !.missed = {}]
  <2> DEFINE s == [req[r] EXCEPT !.pc = "sent", !.missed = {}]
  <2>1. s \in RequestType
    BY DEF RequestType
  <2>2. MoveOn(r, s, {"ask"})
    BY <1>6 DEF PlaceCommit
  <2>3. IF q = r THEN req'[q] = s ELSE Resumed(q)
    BY <1>c, <2>1, <2>2
  <2> QED BY <1>6, <2>3
<1>14. ASSUME NEW r \in Requests, PlaceFailCommit(r)
      PROVE  Resumed(q) \/ req'[q] = DoneRequest
  BY <1>14, <1>c, RestingTypes DEF PlaceFailCommit
<1>7. ASSUME NEW r \in Requests, WithdrawCommit(r)
      PROVE  \/ Resumed(q)
             \/ req'[q] = DoneRequest
             \/ WithdrawCommit(q) /\ req'[q] = [req[q] EXCEPT !.pc = "sent", !.missed = {}]
  <2>1. CASE req' = [req EXCEPT ![r].pc = "sent", ![r].missed = {}]
    <3>1. req'[r] = [req[r] EXCEPT !.pc = "sent", !.missed = {}]
          /\ \A p \in Requests \ {r} : req'[p] = req[p]
      BY <2>1 DEF RequestType
    <3> QED BY <1>7, <1>d, <3>1
  <2>2. CASE req' = [req EXCEPT ![r] = DoneRequest]
    BY <1>d, <2>2
  <2> QED BY <1>7, <2>1, <2>2 DEF WithdrawCommit
<1>8. ASSUME NEW r \in Requests, CancelCommit(r)
      PROVE  \/ Resumed(q)
             \/ CancelCommit(q) /\ req'[q] = [req[q] EXCEPT !.pc = "returning", !.missed = {}]
  <2> DEFINE s == [req[r] EXCEPT !.pc = "returning", !.missed = {}]
             rows == {"ask", "auction"}
  <2>1. s \in RequestType /\ rows \in SUBSET {"ask", "auction"}
    BY DEF RequestType
  <2>2. MoveOn(r, s, rows)
    BY <1>8 DEF CancelCommit
  <2> HIDE DEF rows
  <2>3. IF q = r THEN req'[q] = s ELSE Resumed(q)
    BY <1>c, <2>1, <2>2
  <2> QED BY <1>8, <2>3
<1>9. ASSUME NEW r \in Requests, CancelReturn(r)
      PROVE  Resumed(q) \/ req'[q] = DoneRequest
  <2>1. PICK rows \in SUBSET {"ask", "auction"} : MoveOn(r, DoneRequest, rows)
    BY <1>9 DEF CancelReturn
  <2> QED BY <1>c, <2>1, RestingTypes
<1>10. CASE StopWrite \/ CloseMark \/ CloseUnsold \/ EndAtOnce \/ BuyAsk \/ EndSale \/ ReturnUnsold
  <2>1. PICK rows \in SUBSET {"ask", "auction"} : req' = Missing(rows)
    BY <1>10 DEF StopWrite, CloseMark, CloseUnsold, EndAtOnce, CancelAsk, BuyAsk, EndSale, ReturnUnsold
  <2> QED BY <1>b, <2>1
<1>11. CASE SendToken \/ \E b \in Bidders : CloseWithWinner(b)
  <2>1. req' = req \/ \E rows \in SUBSET {"ask", "auction"} : req' = Missing(rows)
    BY <1>11 DEF SendToken, CloseWithWinner, CancelAsk
  <2> QED BY <1>b, <1>d, <2>1
<1>12. CASE \/ StopFind \/ ClosePick \/ RefundEnd \/ PaySeller \/ PayFails \/ RecordSale \/ CloserCrash
            \/ (\E b \in Bidders : Refund(b) \/ NothingToRefund(b))
            \/ (\E x \in Rows : Execute(x) \/ Drop(x))
            \/ UNCHANGED vars
  <2>1. req' = req
    BY <1>12 DEF StopFind, ClosePick, RefundEnd, PaySeller, PayFails, RecordSale, CloserCrash,
                 Refund, NothingToRefund, Execute, Drop, vars
  <2> QED BY <1>d, <2>1
<1>13. CASE ApiCrash
  BY <1>13, <1>d DEF ApiCrash
<1> QED BY <1>1, <1>2, <1>3, <1>4, <1>5, <1>6, <1>7, <1>8, <1>9, <1>10, <1>11, <1>12, <1>13,
           <1>14
       DEF Next, Handle, Close

\* What an open transaction did if it has missed no update of the ask.
LEMMA TransactionSteps ==
  ASSUME TypeInv, [Next]_vars, NEW q \in Requests, InTransaction(q)', "ask" \notin req'[q].missed
  PROVE  /\ ~Repriced
         /\ \/ Resumed(q) /\ InTransaction(q) /\ "ask" \notin req[q].missed
            \/ \E b \in Bidders, a \in Offers : PlaceBegin(q, b, a)
            \/ \E b \in Bidders : WithdrawBegin(q, b)
            \/ CancelBegin(q)
            \/ PlaceFailBegin(q)
<1>1. ~Repriced
  BY RepricedIsMissed
<1>2. DoneRequest.pc = "done" /\ req[q] \in RequestType
  BY DEF DoneRequest, IdleRequest, TypeInv, TypeOK
<1>3. /\ [req[q] EXCEPT !.pc = "sent", !.missed = {}].pc = "sent"
      /\ [req[q] EXCEPT !.pc = "returning", !.missed = {}].pc = "returning"
  BY <1>2 DEF RequestType
<1>4. req'[q].pc \in {"open", "failing"}
  BY DEF InTransaction
<1> QED BY <1>1, <1>2, <1>3, <1>4, RequestMoves DEF Resumed, InTransaction

\* What one step may do to the row of a request.
LEMMA RequestRowMoves ==
  ASSUME TypeInv, [Next]_vars, NEW q \in Requests
  PROVE  \/ bid'[q] = bid[q]
         \/ PlaceCommit(q) \/ WithdrawCommit(q)
         \/ Succeed(q) \/ PlaceFailCommit(q) \/ WithdrawFail(q)
<1> q \in Rows /\ bid \in [Rows -> BidType]
  BY DEF Rows, TypeInv, TypeOK
<1>1. \A b \in Bidders : b # q
  BY ConstantsAssumption
<1>2. ASSUME NEW r \in Requests, Handle(r), bid'[q] # bid[q]
      PROVE  PlaceCommit(q) \/ WithdrawCommit(q) \/ Succeed(q) \/ PlaceFailCommit(q) \/ WithdrawFail(q)
  <2>1. CASE q = r
    BY <1>2, <2>1 DEF Handle, PlaceFailBegin, CancelCommit, CancelReturn, Abort, db, ledger
  <2>2. CASE q # r
    BY <1>2, <2>2 DEF Handle, PlaceCommit, Succeed, PlaceFailBegin, PlaceFailCommit, WithdrawCommit,
          WithdrawFail, CancelCommit, CancelReturn, Abort, InsertBid, FinishBid, FailBid, db, ledger
  <2> QED BY <2>1, <2>2
<1>3. ASSUME NEW b \in Bidders, Refund(b) PROVE bid'[q] = bid[q]
  BY <1>1, <1>3 DEF Refund, InsertBid
<1>4. CASE RefundEnd
  <2>1. closer.current # q
    BY <1>1, <1>4 DEF RefundEnd, TypeInv, WinnerKnown
  <2>2. bid'[q] = bid[q]
    BY <1>4, <2>1 DEF RefundEnd, FinishBid, FailBid
  <2> QED BY <2>2
<1>5. \/ bid' = bid \/ (\E r \in Requests : Handle(r)) \/ RefundEnd
      \/ \E b \in Bidders : Refund(b)
  BY DEF Next, Close, PlaceBegin, WithdrawBegin, CancelBegin, StopFind, StopWrite, ClosePick,
         CloseMark, CloseUnsold, CloseWithWinner, NothingToRefund, SendToken, PaySeller,
         PayFails, EndAtOnce, BuyAsk, EndSale, RecordSale, ReturnUnsold, Execute, Drop,
         ApiCrash, CloserCrash, vars, db, ledger
<1> QED BY <1>2, <1>3, <1>4, <1>5

\* No other step writes the price.
LEMMA PriceStays ==
  ASSUME TypeInv, [Next]_vars, ~Repriced
  PROVE  ask'.price = ask.price
<1> ask \in AskType
  BY DEF TypeInv, TypeOK
<1>1. CASE ask' = ask
  BY <1>1
<1>2. ASSUME NEW r \in Requests, CancelCommit(r) PROVE ask'.price = ask.price
  BY <1>2 DEF CancelCommit, AskType
<1>3. CASE CancelAsk \/ BuyAsk \/ ReturnUnsold
  BY <1>3 DEF CancelAsk, BuyAsk, ReturnUnsold, AskType
<1> QED BY <1>1, <1>2, <1>3
       DEF Next, Handle, Close, PlaceBegin, Succeed, PlaceFailBegin, WithdrawBegin, WithdrawCommit,
           WithdrawFail, CancelBegin, CancelReturn, Abort, StopFind, StopWrite, ClosePick,
           CloseMark, CloseUnsold, CloseWithWinner, Refund, NothingToRefund, RefundEnd, SendToken,
           PaySeller, PayFails, EndAtOnce, EndSale, RecordSale, Execute, Drop, ApiCrash,
           CloserCrash, Repriced, vars, db

-----------------------------------------------------------------------------
(* A bid raises the price by the step.                                     *)

(* What a bid that can still be committed offers over the present price:   *)
(* the step, unless it is the first or its bidder had reached a price that *)
(* is below one step.  That it is not the first cannot have changed since  *)
(* its snapshot, for the first bid writes the ask.                         *)
RaiseInv ==
  \A q \in Requests :
    req[q].pc = "open" /\ req[q].kind = "place" /\ "ask" \notin req[q].missed =>
      /\ ask.price >= PriceStep => req[q].amount >= PriceStep
      /\ req[q].price - req[q].amount < ask.price /\ Bidding(Live) # {} =>
           req[q].price >= ask.price + PriceStep

LEMMA RaiseStep == TypeInv /\ BidsInv /\ RaiseInv /\ [Next]_vars => RaiseInv'
<1> SUFFICES ASSUME TypeInv, BidsInv, RaiseInv, [Next]_vars, NEW q \in Requests,
                    req'[q].pc = "open", req'[q].kind = "place", "ask" \notin req'[q].missed
             PROVE  /\ ask'.price >= PriceStep => req'[q].amount >= PriceStep
                    /\ req'[q].price - req'[q].amount < ask'.price /\ Bidding(Live)' # {} =>
                         req'[q].price >= ask'.price + PriceStep
  BY DEF RaiseInv
<1> ask \in AskType /\ req \in [Requests -> RequestType] /\ LedgerOK /\ PriceStep \in Nat
  BY ConstantsAssumption DEF TypeInv, TypeOK, LedgerOK
<1> ask.price \in Int /\ req[q].price \in Int /\ req[q].amount \in Int
  BY DEF AskType, RequestType
<1>1. InTransaction(q)'
  BY DEF InTransaction
<1>2. ~Repriced /\ ask'.price = ask.price
  BY <1>1, TransactionSteps, PriceStays
<1>3. CASE Resumed(q)
  <2>1. Bidding(Live)' # {} => Bidding(Live) # {}
    <3>1. SUFFICES ASSUME Bidding(Live) = {} PROVE Bidding(Live)' = {}
      OBVIOUS
    <3>2. NoLiveBid
      BY <3>1 DEF Bidding, NoLiveBid
    <3>3. bid' = bid
      BY <1>2, <3>2, NoLiveBidStep DEF Repriced
    <3> QED BY <3>1, <3>3 DEF Bidding
  <2> QED BY <1>2, <1>3, <2>1 DEF Resumed, RaiseInv
<1>4. ASSUME NEW b \in Bidders, NEW a \in Offers, PlaceBegin(q, b, a)
      PROVE  /\ ask'.price >= PriceStep => req'[q].amount >= PriceStep
             /\ req'[q].price - req'[q].amount < ask'.price /\ Bidding(Live)' # {} =>
                  req'[q].price >= ask'.price + PriceStep
  <2>1. a \in Int /\ PendingSum[b] \in Int
    BY ConstantsAssumption DEF LedgerOK, PendingSum
  <2>2. req'[q].amount = a /\ req'[q].price = PendingSum[b] + a /\ bid' = bid
    BY <1>4 DEF PlaceBegin, db, ledger
  <2>3. Bidding(Live)' = Bidding(Live)
    BY <2>2 DEF Bidding
  <2>4. ask.price >= PriceStep => a >= PriceStep
    BY <1>4 DEF PlaceBegin
  <2>5. PendingSum[b] < ask.price /\ Bidding(Live) # {} => a >= ask.price - PendingSum[b] + PriceStep
    BY <1>4, <2>1 DEF PlaceBegin, MinBidderAmount
  <2> QED BY <1>2, <2>1, <2>2, <2>3, <2>4, <2>5
<1>5. ~CancelBegin(q) /\ ~PlaceFailBegin(q) /\ \A b \in Bidders : ~WithdrawBegin(q, b)
  BY DEF CancelBegin, PlaceFailBegin, WithdrawBegin, RequestType
<1> QED BY <1>1, <1>3, <1>4, <1>5, TransactionSteps

(* A bid that is not the first raises the price it finds by the price step *)
(* at least, for any number of bidders and requests that race, except over *)
(* a price below one step (the exception that the property names).         *)
THEOREM BidsRaiseByStep == Spec => OvertakeByStep
<1>1. Init => RaiseInv
  BY DEF Init, RaiseInv, IdleRequest
<1>2. TypeInv /\ RaiseInv /\ [Next]_vars =>
        [\A r \in Requests :
           /\ Placed(r)
           /\ Bidding(Live) # {}
           /\ ask.price >= PriceStep \/ req[r].price - req[r].amount < ask.price
           => ask'.price >= ask.price + PriceStep]_vars
  <2> SUFFICES ASSUME TypeInv, RaiseInv, Next, NEW r \in Requests, Placed(r), Bidding(Live) # {},
                      ask.price >= PriceStep \/ req[r].price - req[r].amount < ask.price
               PROVE  ask'.price >= ask.price + PriceStep
    OBVIOUS
  <2>1. PlaceCommit(r)
    BY PlacedMeansCommitted
  <2>2. ask'.price = req[r].price /\ ask.price \in Int /\ req[r].price \in Int /\ req[r].amount \in Int
        /\ PriceStep \in Nat
    BY <2>1, ConstantsAssumption DEF PlaceCommit, TypeInv, TypeOK, AskType, RequestType
  <2>3. /\ ask.price >= PriceStep => req[r].amount >= PriceStep
        /\ req[r].price - req[r].amount < ask.price => req[r].price >= ask.price + PriceStep
    BY <2>1 DEF PlaceCommit, CanCommit, Updates, RaiseInv
  <2> QED BY <2>2, <2>3
<1> QED BY <1>1, <1>2, RaiseStep, BidsInit, BidsStep, TypeInit, TypeStep, PTL DEF Spec, OvertakeByStep


-----------------------------------------------------------------------------
(* The price covers every bidder.                                          *)

\* A withdrawal takes money out.
WithdrawInv ==
  \A r \in Requests :
    req[r].kind = "withdraw" => /\ req[r].pc = "open" => req[r].amount < 0
                                /\ req[r].pc = "sent" => bid[r].amount < 0

LEMMA WithdrawStep == TypeInv /\ BidsInv /\ WithdrawInv /\ [Next]_vars => WithdrawInv'
<1> SUFFICES ASSUME TypeInv, BidsInv, WithdrawInv, [Next]_vars, NEW q \in Requests,
                    req'[q].kind = "withdraw"
             PROVE  /\ req'[q].pc = "open" => req'[q].amount < 0
                    /\ req'[q].pc = "sent" => bid'[q].amount < 0
  BY DEF WithdrawInv
<1> req \in [Requests -> RequestType] /\ LedgerOK /\ q \in Rows
  BY DEF TypeInv, TypeOK, LedgerOK, Rows
<1>1. CASE Resumed(q)
  <2>1. req[q].kind = "withdraw" /\ req'[q].pc = req[q].pc /\ req'[q].amount = req[q].amount
    BY <1>1 DEF Resumed
  <2>2. ASSUME req[q].pc = "sent" PROVE bid'[q] = bid[q]
    <3>1. ~PlaceCommit(q) /\ ~WithdrawCommit(q) /\ ~PlaceFailCommit(q)
      BY <2>2 DEF PlaceCommit, WithdrawCommit, PlaceFailCommit
    <3>2. ~Succeed(q) /\ ~WithdrawFail(q)
      BY <2>1, <2>2 DEF Succeed, WithdrawFail, DoneRequest, IdleRequest
    <3> QED BY <3>1, <3>2, RequestRowMoves
  <2> QED BY <2>1, <2>2 DEF WithdrawInv
<1>2. CASE req'[q] = DoneRequest
  BY <1>2 DEF DoneRequest, IdleRequest
<1>3. ASSUME NEW b \in Bidders, WithdrawBegin(q, b)
      PROVE  req'[q].pc = "open" /\ req'[q].amount < 0
  BY <1>3 DEF WithdrawBegin, LedgerOK
<1>4. CASE WithdrawCommit(q) /\ req'[q] = [req[q] EXCEPT !.pc = "sent", !.missed = {}]
  <2>1. req'[q].pc = "sent"
    BY <1>4 DEF RequestType
  <2>2. bid'[q].amount = req[q].amount /\ req[q].pc = "open" /\ req[q].kind = "withdraw"
    BY <1>4 DEF WithdrawCommit, InsertBid, LedgerOK
  <2> QED BY <2>1, <2>2 DEF WithdrawInv
<1>5. ~PlaceCommit(q) \/ req'[q] # [req[q] EXCEPT !.pc = "sent", !.missed = {}]
  BY DEF PlaceCommit, RequestType
<1>6. ~CancelCommit(q) \/ req'[q] # [req[q] EXCEPT !.pc = "returning", !.missed = {}]
  BY DEF CancelCommit, RequestType
<1>7. ~CancelBegin(q) /\ ~PlaceFailBegin(q) /\ \A b \in Bidders, a \in Offers : ~PlaceBegin(q, b, a)
  BY DEF CancelBegin, PlaceFailBegin, PlaceBegin, RequestType
<1> QED BY <1>1, <1>2, <1>3, <1>4, <1>5, <1>6, <1>7, RequestMoves

\* Only a bid that was placed is failing.
FailingInv == \A r \in Requests : req[r].pc = "failing" => req[r].kind = "place"

LEMMA FailingStep == TypeInv /\ FailingInv /\ [Next]_vars => FailingInv'
<1> SUFFICES ASSUME TypeInv, FailingInv, [Next]_vars, NEW q \in Requests, req'[q].pc = "failing"
             PROVE  req'[q].kind = "place"
  BY DEF FailingInv
<1> req \in [Requests -> RequestType]
  BY DEF TypeInv, TypeOK
<1>1. CASE Resumed(q)
  BY <1>1 DEF Resumed, FailingInv
<1>2. CASE PlaceFailBegin(q)
  BY <1>2 DEF PlaceFailBegin, RequestType
<1>3. req'[q] # DoneRequest
  BY DEF DoneRequest, IdleRequest
<1>4. /\ ~CancelBegin(q) /\ \A b \in Bidders : ~WithdrawBegin(q, b)
      /\ \A b \in Bidders, a \in Offers : ~PlaceBegin(q, b, a)
  BY DEF CancelBegin, WithdrawBegin, PlaceBegin, RequestType
<1>5. /\ req'[q] # [req[q] EXCEPT !.pc = "sent", !.missed = {}]
      /\ req'[q] # [req[q] EXCEPT !.pc = "returning", !.missed = {}]
  BY DEF RequestType
<1> QED BY <1>1, <1>2, <1>3, <1>4, <1>5, RequestMoves

\* What failing bid r leaves to every bidder.
LeftBy(r) == [PendingSum EXCEPT ![bid[r].bidder] = @ - bid[r].amount]

(* Besides the price itself, the prices about to be written cover the      *)
(* bidders: that of a bid covers its own bidder, that of a failing bid     *)
(* everybody the bid leaves.                                               *)
PriceInv ==
  /\ PriceCovers
  /\ Accepting =>
       \A q \in Requests :
         /\ req[q].pc = "open" /\ req[q].kind = "place" /\ "ask" \notin req[q].missed =>
              WithdrawalFailed(req[q].bidder)
                \/ PendingSum[req[q].bidder] + req[q].amount <= req[q].price
         /\ req[q].pc = "failing" /\ "ask" \notin req[q].missed =>
              \A b \in Bidders : LeftBy(q)[b] > 0 /\ ~WithdrawalFailed(b) =>
                LeftBy(q)[b] <= req[q].price

LEMMA PriceInit == Init => PriceInv
<1> SUFFICES ASSUME Init PROVE PriceInv
  OBVIOUS
<1>1. \A b \in Bidders : PendingSum[b] = 0
  BY DEF Init, PendingSum
<1>2. \A q \in Requests : req[q].pc = "idle"
  BY DEF Init, IdleRequest
<1> QED BY <1>1, <1>2 DEF PriceInv, PriceCovers

\* No step accepts bids again.
LEMMA AcceptedBefore ==
  ASSUME TypeInv, [Next]_vars, Accepting'
  PROVE  Accepting
<1>1. ask.status = "active"
  BY AskStaysClosed DEF Accepting
<1>2. auction = "active"
  BY DEF Accepting, Next, Handle, Close, PlaceBegin, PlaceCommit, Succeed, PlaceFailBegin,
       PlaceFailCommit, WithdrawBegin, WithdrawCommit, WithdrawFail, CancelBegin, CancelCommit,
       CancelReturn, Abort, StopFind, StopWrite, ClosePick, CloseMark, CloseUnsold,
       CloseWithWinner, EndAtOnce, Refund, NothingToRefund, RefundEnd, SendToken, PaySeller,
       PayFails, BuyAsk, EndSale, RecordSale, ReturnUnsold, Execute, Drop, ApiCrash, CloserCrash, vars, db
<1> QED BY <1>1, <1>2 DEF Accepting

\* A failed withdrawal stays failed.
LEMMA FailedForGood ==
  ASSUME TypeInv, BidsInv, [Next]_vars, NEW b \in Bidders, WithdrawalFailed(b)
  PROVE  WithdrawalFailed(b)'
<1>1. PICK r \in Requests : bid[r].bidder = b /\ bid[r].amount < 0 /\ bid[r].status = "error"
  BY DEF WithdrawalFailed
<1>2. bid'[r] = bid[r]
  BY <1>1, RequestRowMoves DEF PlaceCommit, WithdrawCommit, Succeed, PlaceFailCommit, WithdrawFail,
                               BidsInv
<1> QED BY <1>1, <1>2 DEF WithdrawalFailed

\* While bids are accepted and the price stays, a bidder's sum grows only by a
\* withdrawal that fails.
LEMMA PendingShrinks ==
  ASSUME TypeInv, OnceInv, BidsInv, WithdrawInv, [Next]_vars, Accepting', ~Repriced,
         NEW b \in Bidders, ~WithdrawalFailed(b)'
  PROVE  PendingSum'[b] <= PendingSum[b]
<1> LedgerOK /\ req \in [Requests -> RequestType]
  BY DEF TypeInv, TypeOK, LedgerOK
<1>1. Accepting
  BY AcceptedBefore
<1>2. closer.pc = "idle"
  BY <1>1 DEF OnceInv, Accepting
<1>3. PendingSum[b] = finished[b] + minting[b] /\ PendingSum'[b] = finished'[b] + minting'[b]
      /\ finished[b] \in Int /\ minting[b] \in Int
  BY DEF PendingSum, LedgerOK
<1>4. ASSUME NEW r \in Requests, Succeed(r) PROVE PendingSum'[b] <= PendingSum[b]
  <2>1. bid[r].amount \in Int
    BY DEF LedgerOK, BidType, Rows
  <2> QED BY <1>3, <1>4, <2>1 DEF Succeed, FinishBid, LedgerOK
<1>5. ASSUME NEW r \in Requests, WithdrawCommit(r) PROVE PendingSum'[b] <= PendingSum[b]
  <2>1. req[r].amount < 0 /\ req[r].amount \in Int
    BY <1>5 DEF WithdrawCommit, WithdrawInv, RequestType
  <2> QED BY <1>3, <1>5, <2>1 DEF WithdrawCommit, InsertBid, LedgerOK
<1>6. ASSUME NEW r \in Requests, WithdrawFail(r) PROVE PendingSum'[b] <= PendingSum[b]
  <2>1. bid[r].amount < 0 /\ bid[r] \in BidType
    BY <1>6 DEF WithdrawFail, WithdrawInv, LedgerOK, Rows
  <2>2. bid'[r].status = "error" /\ bid'[r].amount = bid[r].amount /\ bid'[r].bidder = bid[r].bidder
    BY <1>6, <2>1 DEF WithdrawFail, FailBid, LedgerOK, Rows, BidType
  <2>3. bid[r].bidder # b
    BY <2>1, <2>2 DEF WithdrawalFailed
  <2> QED BY <1>3, <1>6, <2>3 DEF WithdrawFail, FailBid, LedgerOK
<1>7. ASSUME NEW r \in Requests, Handle(r) PROVE PendingSum'[b] <= PendingSum[b]
  <2>1. ~PlaceCommit(r) /\ ~PlaceFailCommit(r)
    BY DEF Repriced
  <2> QED BY <1>3, <1>4, <1>5, <1>6, <1>7, <2>1
          DEF Handle, PlaceFailBegin, CancelCommit, CancelReturn, Abort, db, ledger
<1>8. CASE ~\E r \in Requests : Handle(r)
  <2>1. UNCHANGED <<finished, minting>>
    BY <1>2, <1>8 DEF Next, Close, PlaceBegin, WithdrawBegin, CancelBegin, StopFind, StopWrite,
       ClosePick, CloseMark, CloseUnsold, CloseWithWinner, Refund, NothingToRefund, RefundEnd,
       SendToken, PaySeller, PayFails, EndAtOnce, BuyAsk, EndSale, RecordSale, ReturnUnsold,
       Execute, Drop, ApiCrash, CloserCrash, vars, db, ledger
  <2> QED BY <1>3, <2>1
<1> QED BY <1>7, <1>8


\* What is left when a failing bid takes its snapshot is covered by the price it chose.
LEMMA FailingCovers ==
  ASSUME TypeInv, BidsInv, SumsInv, NEW r \in Requests, PlaceFailBegin(r), NEW b \in Bidders,
         LeftBy(r)[b] > 0
  PROVE  LeftBy(r)[b] <= req'[r].price
<1> DEFINE others == {bid[x].bidder : x \in {y \in Rows \ {r} : bid[y].status \in Live}}
           prices == IF others = {} THEN {StartPrice}
                     ELSE {LeftBy(r)[w] : w \in Leaders(others, LeftBy(r))}
<1> LedgerOK /\ r \in Rows /\ req[r] \in RequestType
  BY DEF TypeInv, TypeOK, LedgerOK, Rows
<1>1. bid[r].status = "minting" /\ bid[r].bidder \in Bidders /\ bid[r].amount \in Int
  BY DEF PlaceFailBegin, BidsInv, TypeInv, BiddersKnown, Live, LedgerOK, BidType
<1>2. PendingSum \in [Bidders -> Int]
  BY DEF PendingSum, LedgerOK
<1>3. LeftBy(r)[b] = IF bid[r].bidder = b THEN PendingSum[b] - bid[r].amount ELSE PendingSum[b]
  BY <1>1, <1>2 DEF LeftBy
<1>4. b \in others
  <2>1. SUFFICES ASSUME b \notin others PROVE FALSE
    OBVIOUS
  <2>2. \A y \in Rows \ {r} : ~(bid[y].status \in Live /\ bid[y].bidder = b)
    BY <2>1
  <2>3. \A y \in Rows \ {r} : Share(Live, b)[y] = 0
    BY <2>2 DEF Share
  <2>4. Share(Live, b)[r] = IF bid[r].bidder = b THEN bid[r].amount ELSE 0
    BY <1>1 DEF Share, Live
  <2>5. SumsTo(Rows, Share(Live, b), PendingSum[b]) /\ Share(Live, b)[r] \in Int
    BY <1>1, <2>4 DEF SumsInv
  <2>6. PendingSum[b] = Share(Live, b)[r]
    BY <2>3, <2>5, SumOfOne
  <2> QED BY <1>1, <1>3, <2>4, <2>6
<1>5. PICK price \in prices : req' = [req EXCEPT ![r].pc = "failing", ![r].price = price]
  BY <1>4 DEF PlaceFailBegin, LeftBy
<1>6. PICK w \in Leaders(others, LeftBy(r)) : price = LeftBy(r)[w]
  BY <1>4, <1>5
<1>7. LeftBy(r)[b] <= LeftBy(r)[w]
  BY <1>4, <1>6 DEF Leaders
<1>8. req'[r].price = price
  BY <1>5 DEF TypeInv, TypeOK, RequestType
<1> QED BY <1>6, <1>7, <1>8

LEMMA PriceInvStep ==
  TypeInv /\ OnceInv /\ BidsInv /\ SumsInv /\ WithdrawInv /\ SnapshotInv /\ FailingInv /\
  PriceInv /\ [Next]_vars => PriceInv'
<1> SUFFICES ASSUME TypeInv, OnceInv, BidsInv, SumsInv, WithdrawInv, SnapshotInv, FailingInv,
                    PriceInv, [Next]_vars, Accepting'
             PROVE  /\ PriceCovers'
                    /\ \A q \in Requests :
                         /\ req'[q].pc = "open" /\ req'[q].kind = "place" /\ "ask" \notin req'[q].missed =>
                              WithdrawalFailed(req[q].bidder)'
                                \/ PendingSum'[req'[q].bidder] + req'[q].amount <= req'[q].price
                         /\ req'[q].pc = "failing" /\ "ask" \notin req'[q].missed =>
                              \A b \in Bidders : LeftBy(q)'[b] > 0 /\ ~WithdrawalFailed(b)' =>
                                LeftBy(q)'[b] <= req'[q].price
  BY DEF PriceInv, PriceCovers
<1> Accepting
  BY AcceptedBefore
<1> LedgerOK /\ LedgerOK' /\ req \in [Requests -> RequestType] /\ ask \in AskType
  BY TypeStep DEF TypeInv, TypeOK, LedgerOK
<1>f. \A b \in Bidders : ~WithdrawalFailed(b)' => ~WithdrawalFailed(b)
  BY FailedForGood
<1>p. \A b \in Bidders : PendingSum[b] \in Int /\ PendingSum'[b] \in Int
  BY DEF PendingSum, LedgerOK
<1>1. PriceCovers'
  <2> SUFFICES ASSUME NEW b \in Bidders, PendingSum'[b] > 0, ~WithdrawalFailed(b)'
               PROVE  PendingSum'[b] <= ask'.price
    BY DEF PriceCovers
  <2>0. PendingSum[b] > 0 => PendingSum[b] <= ask.price
    BY <1>f DEF PriceInv, PriceCovers
  <2>i. ask.price \in Int /\ PendingSum[b] \in Int /\ PendingSum'[b] \in Int
    BY <1>p DEF AskType
  <2>1. ASSUME NEW r \in Requests, PlaceCommit(r) PROVE PendingSum'[b] <= ask'.price
    <3>1. /\ req[r].pc = "open" /\ req[r].kind = "place" /\ "ask" \notin req[r].missed
          /\ ask'.price = req[r].price /\ req[r].price \in Int /\ req[r].amount \in Int
      BY <2>1 DEF PlaceCommit, CanCommit, Updates, AskType, RequestType
    <3>2. PendingSum'[b] = IF req[r].bidder = b THEN PendingSum[b] + req[r].amount ELSE PendingSum[b]
      BY <2>1, <3>1 DEF PlaceCommit, InsertBid, PendingSum, LedgerOK
    <3>3. CASE req[r].bidder = b
      BY <1>f, <2>1, <3>1, <3>2, <3>3 DEF PriceInv
    <3>4. CASE req[r].bidder # b
      <4>1. ask.price <= req[r].price
        BY <3>1 DEF SnapshotInv
      <4> QED BY <2>0, <2>i, <3>1, <3>2, <3>4, <4>1
    <3> QED BY <3>3, <3>4
  <2>2. ASSUME NEW r \in Requests, PlaceFailCommit(r) PROVE PendingSum'[b] <= ask'.price
    <3>1. /\ req[r].pc = "failing" /\ ask'.price = req[r].price
      BY <2>2 DEF PlaceFailCommit, AskType
    <3>2. "ask" \notin req[r].missed
      BY <2>2 DEF PlaceFailCommit, CanCommit, Updates, FailingInv
    <3>3. bid[r].bidder \in Bidders /\ bid[r].amount \in Int
      BY <3>1 DEF BidsInv, TypeInv, BiddersKnown, Live, LedgerOK, BidType, Rows
    <3>4. PendingSum'[b] = LeftBy(r)[b]
      BY <2>2, <3>3 DEF PlaceFailCommit, FailBid, PendingSum, LeftBy, LedgerOK
    <3> QED BY <1>f, <3>1, <3>2, <3>4 DEF PriceInv
  <2>3. CASE ~Repriced
    <3>1. ask'.price = ask.price /\ PendingSum'[b] <= PendingSum[b]
      BY <2>3, PriceStays, PendingShrinks
    <3> QED BY <2>0, <2>i, <3>1
  <2> QED BY <2>1, <2>2, <2>3 DEF Repriced
<1>2. ASSUME NEW q \in Requests,
             req'[q].pc = "open", req'[q].kind = "place", "ask" \notin req'[q].missed,
             ~WithdrawalFailed(req[q].bidder)'
      PROVE  PendingSum'[req'[q].bidder] + req'[q].amount <= req'[q].price
  <2>1. InTransaction(q)'
    BY <1>2 DEF InTransaction
  <2>2. ~Repriced
    BY <1>2, <2>1, TransactionSteps
  <2>3. CASE Resumed(q) /\ InTransaction(q) /\ "ask" \notin req[q].missed
    <3>1. /\ req[q].pc = "open" /\ req[q].kind = "place" /\ req'[q].bidder = req[q].bidder
          /\ req'[q].amount = req[q].amount /\ req'[q].price = req[q].price
      BY <1>2, <2>3 DEF Resumed
    <3>2. PICK b \in Bidders : b = req[q].bidder
      BY <3>1 DEF TypeInv, AskersKnown
    <3>6. ~WithdrawalFailed(b)'
      BY <1>2, <3>1, <3>2 DEF WithdrawalFailed
    <3>7. ~WithdrawalFailed(req[q].bidder)
      BY <1>f, <3>2, <3>6
    <3>3. PendingSum[b] + req[q].amount <= req[q].price
      BY <2>3, <3>1, <3>2, <3>7 DEF PriceInv
    <3>4. PendingSum'[b] <= PendingSum[b]
      BY <2>2, <3>6, PendingShrinks
    <3>5. req[q].amount \in Int /\ req[q].price \in Int
      BY DEF RequestType
    <3> QED BY <1>p, <3>1, <3>2, <3>3, <3>4, <3>5
  <2>4. ASSUME NEW b \in Bidders, NEW a \in Offers, PlaceBegin(q, b, a)
        PROVE  PendingSum'[req'[q].bidder] + req'[q].amount <= req'[q].price
    <3>1. /\ req'[q].bidder = b /\ req'[q].amount = a /\ req'[q].price = PendingSum[b] + a
          /\ PendingSum' = PendingSum /\ a \in Int
      BY <2>4, ConstantsAssumption DEF PlaceBegin, PendingSum, db, ledger
    <3> QED BY <1>p, <3>1
  <2>5. ~CancelBegin(q) /\ ~PlaceFailBegin(q) /\ \A b \in Bidders : ~WithdrawBegin(q, b)
    BY <1>2 DEF CancelBegin, PlaceFailBegin, WithdrawBegin, RequestType
  <2> QED BY <1>2, <2>1, <2>3, <2>4, <2>5, TransactionSteps
<1>3. ASSUME NEW q \in Requests, req'[q].pc = "failing", "ask" \notin req'[q].missed,
             NEW b \in Bidders, LeftBy(q)'[b] > 0, ~WithdrawalFailed(b)'
      PROVE  LeftBy(q)'[b] <= req'[q].price
  <2>1. InTransaction(q)'
    BY <1>3 DEF InTransaction
  <2>2. ~Repriced
    BY <1>3, <2>1, TransactionSteps
  <2>3. CASE Resumed(q) /\ InTransaction(q) /\ "ask" \notin req[q].missed
    <3>1. req[q].pc = "failing" /\ req'[q].price = req[q].price /\ req[q].price \in Int
      BY <1>3, <2>3 DEF Resumed, RequestType
    <3>2. bid'[q] = bid[q]
      BY <2>2, <3>1, RequestRowMoves
         DEF PlaceCommit, WithdrawCommit, Succeed, PlaceFailCommit, WithdrawFail, Repriced
    <3>3. bid[q].bidder \in Bidders /\ bid[q].amount \in Int
      BY <3>1 DEF BidsInv, TypeInv, BiddersKnown, Live, LedgerOK, BidType, Rows
    <3>4. /\ LeftBy(q)[b] = IF bid[q].bidder = b THEN PendingSum[b] - bid[q].amount ELSE PendingSum[b]
          /\ LeftBy(q)'[b] = IF bid[q].bidder = b THEN PendingSum'[b] - bid[q].amount ELSE PendingSum'[b]
      BY <3>2, <3>3 DEF LeftBy, PendingSum
    <3>5. PendingSum'[b] <= PendingSum[b]
      BY <1>3, <2>2, PendingShrinks
    <3>6. LeftBy(q)[b] > 0 => LeftBy(q)[b] <= req[q].price
      BY <1>3, <1>f, <2>3, <3>1 DEF PriceInv
    <3> QED BY <1>3, <1>p, <3>1, <3>3, <3>4, <3>5, <3>6
  <2>4. CASE PlaceFailBegin(q)
    <3>1. LeftBy(q)' = LeftBy(q)
      BY <2>4 DEF PlaceFailBegin, LeftBy, PendingSum, db, ledger
    <3> QED BY <1>3, <2>4, <3>1, FailingCovers
  <2>5. /\ ~CancelBegin(q) /\ \A c \in Bidders : ~WithdrawBegin(q, c)
        /\ \A c \in Bidders, a \in Offers : ~PlaceBegin(q, c, a)
    BY <1>3 DEF CancelBegin, WithdrawBegin, PlaceBegin, RequestType
  <2> QED BY <1>3, <2>1, <2>3, <2>4, <2>5, TransactionSteps
<1> QED BY <1>1, <1>2, <1>3

(* While bids are accepted, the ask's price covers what every bidder has   *)
(* in the auction, except for a bidder whose withdrawal failed.            *)
THEOREM PriceCoversBidders == Spec => []PriceCovers
<1> DEFINE Inv == /\ TypeInv /\ OnceInv /\ BidsInv /\ RefundInv /\ SumsInv
                  /\ WithdrawInv /\ SnapshotInv /\ FailingInv /\ PriceInv
<1>1. Init => Inv
  <2>1. Init => WithdrawInv /\ SnapshotInv /\ FailingInv
    BY DEF Init, WithdrawInv, SnapshotInv, FailingInv, IdleRequest
  <2> QED BY <2>1, TypeInit, OnceInit, BidsInit, RefundInit, SumsInit, PriceInit
<1>2. Inv /\ [Next]_vars => Inv'
  BY TypeStep, OnceStep, BidsStep, RefundStep, SumsStep, WithdrawStep, SnapshotStep,
     FailingStep, PriceInvStep
<1>3. Inv => PriceCovers
  BY DEF PriceInv
<1> QED BY <1>1, <1>2, <1>3, PTL DEF Spec


-----------------------------------------------------------------------------
(* Who has asked for what.                                                 *)

\* Request q places or withdraws a bid and is not answered yet.
Asks(q) == req[q].kind \in {"place", "withdraw"} /\ req[q].pc \in {"open", "sent", "failing"}

\* A request that has its row waits for the extrinsic of what it asked for.
AskerInv ==
  \A q \in Requests :
    /\ Asks(q) => req[q].bidder \in Bidders
    /\ req[q].bidder \in Bidders => Asks(q)
    /\ req[q].pc \in {"sent", "failing"} =>
         Asks(q) /\ bid[q].bidder = req[q].bidder /\ bid[q].amount = req[q].amount
    /\ Asks(q) /\ req[q].kind = "place" => req[q].amount >= 0

\* A patient bidder has one request at a time.
OneAsker ==
  \A p, q \in Requests : req[p].bidder \in Bidders /\ req[p].bidder = req[q].bidder => p = q

LEMMA AskerInit == Init => AskerInv /\ OneAsker
  BY ConstantsAssumption DEF Init, AskerInv, OneAsker, Asks, IdleRequest

\* A request that waits for an extrinsic keeps its row.
LEMMA WaitingRow ==
  ASSUME TypeInv, [Next]_vars, NEW q \in Requests, Resumed(q), req[q].pc \in {"sent", "failing"}
  PROVE  bid'[q] = bid[q]
<1> req \in [Requests -> RequestType]
  BY DEF TypeInv, TypeOK
<1>1. ~PlaceCommit(q) /\ ~WithdrawCommit(q)
  BY DEF PlaceCommit, WithdrawCommit
<1>2. ASSUME Succeed(q) \/ WithdrawFail(q) PROVE FALSE
  BY <1>2 DEF Succeed, WithdrawFail, DoneRequest, IdleRequest, Resumed
<1>3. ASSUME PlaceFailCommit(q) PROVE FALSE
  <2>1. req'[q] = DoneRequest
    BY <1>3, MoveOnKeeps, RestingTypes DEF PlaceFailCommit
  <2> QED BY <2>1 DEF DoneRequest, IdleRequest, Resumed
<1> QED BY <1>1, <1>2, <1>3, RequestRowMoves

LEMMA AskerStep == TypeInv /\ AskerInv /\ [Next]_vars => AskerInv'
<1> SUFFICES ASSUME TypeInv, AskerInv, [Next]_vars, NEW q \in Requests
             PROVE  /\ Asks(q)' => req'[q].bidder \in Bidders
                    /\ req'[q].bidder \in Bidders => Asks(q)'
                    /\ req'[q].pc \in {"sent", "failing"} =>
                         Asks(q)' /\ bid'[q].bidder = req'[q].bidder /\ bid'[q].amount = req'[q].amount
                    /\ Asks(q)' /\ req'[q].kind = "place" => req'[q].amount >= 0
  BY DEF AskerInv
<1> DEFINE Kept == /\ Asks(q)' => req'[q].bidder \in Bidders
                   /\ req'[q].bidder \in Bidders => Asks(q)'
                   /\ req'[q].pc \in {"sent", "failing"} =>
                        Asks(q)' /\ bid'[q].bidder = req'[q].bidder /\ bid'[q].amount = req'[q].amount
                   /\ Asks(q)' /\ req'[q].kind = "place" => req'[q].amount >= 0
<1> SUFFICES Kept
  OBVIOUS
<1> req \in [Requests -> RequestType] /\ LedgerOK /\ q \in Rows /\ Nobody \notin Bidders
    /\ Offers \subseteq Nat
  BY ConstantsAssumption DEF TypeInv, TypeOK, LedgerOK, Rows
<1> USE DEF Asks
<1>1. CASE Resumed(q)
  <2>1. req[q].pc \in {"sent", "failing"} => bid'[q] = bid[q]
    BY <1>1, WaitingRow
  <2> QED BY <1>1, <2>1 DEF Resumed, AskerInv
<1>2. CASE req'[q] = DoneRequest
  BY <1>2 DEF DoneRequest, IdleRequest
<1>3. ASSUME NEW b \in Bidders, NEW a \in Offers, PlaceBegin(q, b, a)
      PROVE  Kept
  <2>1. req'[q] = [pc |-> "open", kind |-> "place", bidder |-> b,
               amount |-> a, price |-> PendingSum[b] + a, missed |-> {}]
    BY <1>3 DEF PlaceBegin
  <2> QED BY <2>1
<1>4. ASSUME NEW b \in Bidders, WithdrawBegin(q, b)
      PROVE  Kept
  <2>1. req'[q] = [pc |-> "open", kind |-> "withdraw", bidder |-> b,
               amount |-> -finished[b], price |-> 0, missed |-> {}]
    BY <1>4 DEF WithdrawBegin
  <2> QED BY <2>1
<1>5. ASSUME CancelBegin(q) PROVE Kept
  <2>1. req'[q].kind = "cancel" /\ req'[q].pc = "open" /\ req'[q].bidder \notin Bidders
    BY <1>5 DEF CancelBegin, RequestType, AskerInv
  <2> QED BY <2>1
<1>6. CASE PlaceFailBegin(q)
  <2>1. req[q].pc = "sent" /\ bid' = bid /\ req'[q].pc = "failing" /\ req'[q].kind = req[q].kind
        /\ req'[q].bidder = req[q].bidder /\ req'[q].amount = req[q].amount
    BY <1>6 DEF PlaceFailBegin, RequestType, db, ledger
  <2> QED BY <2>1 DEF AskerInv
<1>7. CASE PlaceCommit(q) /\ req'[q] = [req[q] EXCEPT !.pc = "sent", !.missed = {}]
  <2>1. /\ req[q].pc = "open" /\ req[q].kind = "place" /\ req'[q].pc = "sent" /\ req'[q].kind = "place"
        /\ req'[q].bidder = req[q].bidder /\ req'[q].amount = req[q].amount
        /\ bid'[q] = [status |-> "minting", bidder |-> req[q].bidder, amount |-> req[q].amount]
    BY <1>7 DEF PlaceCommit, InsertBid, RequestType, LedgerOK
  <2> QED BY <2>1 DEF AskerInv
<1>8. CASE WithdrawCommit(q) /\ req'[q] = [req[q] EXCEPT !.pc = "sent", !.missed = {}]
  <2>1. /\ req[q].pc = "open" /\ req[q].kind = "withdraw" /\ req'[q].pc = "sent"
        /\ req'[q].kind = "withdraw"
        /\ req'[q].bidder = req[q].bidder /\ req'[q].amount = req[q].amount
        /\ bid'[q] = [status |-> "minting", bidder |-> req[q].bidder, amount |-> req[q].amount]
    BY <1>8 DEF WithdrawCommit, InsertBid, RequestType, LedgerOK
  <2> QED BY <2>1 DEF AskerInv
<1>9. CASE CancelCommit(q) /\ req'[q] = [req[q] EXCEPT !.pc = "returning", !.missed = {}]
  <2>1. req'[q].pc = "returning" /\ req'[q].bidder = req[q].bidder /\ req[q].kind = "cancel"
        /\ req'[q].kind = "cancel"
    BY <1>9 DEF CancelCommit, RequestType
  <2> QED BY <2>1 DEF AskerInv
<1> HIDE DEF Kept
<1> QED BY <1>1, <1>2, <1>3, <1>4, <1>5, <1>6, <1>7, <1>8, <1>9, RequestMoves

LEMMA OneAskerStep ==
  ASSUME PatientBidders, TypeInv, AskerInv, OneAsker, [Next]_vars
  PROVE  OneAsker'
<1> req \in [Requests -> RequestType] /\ Nobody \notin Bidders
  BY ConstantsAssumption DEF TypeInv, TypeOK
\* A request keeps its bidder, loses it, or gets one who had no request.
<1>1. ASSUME NEW q \in Requests, req'[q].bidder \in Bidders
      PROVE  \/ req'[q].bidder = req[q].bidder
             \/ /\ \A p \in Requests : req[p].bidder # req'[q].bidder
                /\ req' = [req EXCEPT ![q] = req'[q]]
  <2>1. Resumed(q) \/ PlaceFailBegin(q) \/ CancelBegin(q) => req'[q].bidder = req[q].bidder
    BY DEF Resumed, PlaceFailBegin, CancelBegin, RequestType
  <2>2. req'[q] # DoneRequest
    BY <1>1 DEF DoneRequest, IdleRequest
  <2>3. /\ [req[q] EXCEPT !.pc = "sent", !.missed = {}].bidder = req[q].bidder
        /\ [req[q] EXCEPT !.pc = "returning", !.missed = {}].bidder = req[q].bidder
    BY DEF RequestType
  <2>4. ASSUME NEW b \in Bidders, NEW a \in Offers, PlaceBegin(q, b, a)
        PROVE  (\A p \in Requests : req[p].bidder # req'[q].bidder) /\ req' = [req EXCEPT ![q] = req'[q]]
    BY <2>4 DEF PlaceBegin, MayAsk
  <2>5. ASSUME NEW b \in Bidders, WithdrawBegin(q, b)
        PROVE  (\A p \in Requests : req[p].bidder # req'[q].bidder) /\ req' = [req EXCEPT ![q] = req'[q]]
    BY <2>5 DEF WithdrawBegin, MayAsk
  <2> QED BY <2>1, <2>2, <2>3, <2>4, <2>5, RequestMoves
<1>2. SUFFICES ASSUME NEW p \in Requests, NEW q \in Requests,
                      req'[p].bidder \in Bidders, req'[p].bidder = req'[q].bidder, p # q
               PROVE  FALSE
  BY DEF OneAsker
<1>3. CASE req'[p].bidder = req[p].bidder /\ req'[q].bidder = req[q].bidder
  BY <1>2, <1>3 DEF OneAsker
<1>4. CASE req'[p].bidder # req[p].bidder
  <2>1. (\A o \in Requests : req[o].bidder # req'[p].bidder) /\ req' = [req EXCEPT ![p] = req'[p]]
    BY <1>1, <1>2, <1>4
  <2>2. req'[q] = req[q]
    BY <1>2, <2>1
  <2> QED BY <1>2, <2>1, <2>2
<1>5. CASE req'[q].bidder # req[q].bidder
  <2>1. (\A o \in Requests : req[o].bidder # req'[q].bidder) /\ req' = [req EXCEPT ![q] = req'[q]]
    BY <1>1, <1>2, <1>5
  <2>2. req'[p] = req[p]
    BY <1>2, <2>1
  <2> QED BY <1>2, <2>1, <2>2
<1> QED BY <1>3, <1>4, <1>5

-----------------------------------------------------------------------------
(* Before the first refund, and unless a bid was abandoned, each minting   *)
(* row is that of a request that still waits for it.                       *)

NoRefund == \A b \in Bidders : bid[b].status = "none"

Early == NoneAbandoned /\ NoRefund

LEMMA NoRefundBefore ==
  ASSUME TypeInv, BidsInv, RefundInv, [Next]_vars, NoRefund'
  PROVE  NoRefund /\ ~RefundEnd /\ \A b \in Bidders : ~Refund(b)
<1> LedgerOK /\ Bidders \subseteq Rows
  BY DEF TypeInv, TypeOK, LedgerOK, Rows
<1>1. ASSUME NEW b \in Bidders, bid[b].status # "none" PROVE FALSE
  <2>1. bid'[b].status = "none"
    BY DEF NoRefund
  <2>2. CASE UNCHANGED ledger
    BY <1>1, <2>1, <2>2 DEF ledger
  <2>3. ASSUME NEW x \in Rows, NEW c \in Bidders, NEW a \in Int, InsertBid(x, c, a) PROVE FALSE
    BY <1>1, <2>1, <2>3 DEF InsertBid, LedgerOK
  <2>4. ASSUME NEW x \in Rows, FinishBid(x) \/ FailBid(x) PROVE FALSE
    BY <1>1, <2>1, <2>4 DEF FinishBid, FailBid, LedgerOK, BidType
  <2> QED BY <2>2, <2>3, <2>4, LedgerSteps
<1>2. ASSUME RefundEnd PROVE FALSE
  <2>1. closer.current \in Bidders /\ bid[closer.current].status = "minting"
    BY <1>2 DEF RefundEnd, RefundInv, TypeInv, WinnerKnown
  <2> QED BY <1>1, <2>1
<1>3. ASSUME NEW b \in Bidders, Refund(b) PROVE FALSE
  BY <1>3 DEF Refund, InsertBid, LedgerOK, NoRefund
<1> QED BY <1>1, <1>2, <1>3 DEF NoRefund

\* An abandoned bid stays abandoned.
LEMMA AbandonedForGood ==
  ASSUME TypeInv, [Next]_vars, NEW r \in Requests, Abandoned(r)
  PROVE  Abandoned(r)'
<1>1. bid[r].status = "minting" /\ req[r].pc = "done" /\ req[r] \in RequestType
  BY DEF Abandoned, TypeInv, TypeOK
<1>2. bid'[r] = bid[r]
  BY <1>1, RequestRowMoves DEF PlaceCommit, WithdrawCommit, Succeed, PlaceFailCommit, WithdrawFail
<1>3. req'[r].pc = "done"
  BY <1>1, RequestMoves, RestingTypes
     DEF Resumed, PlaceBegin, WithdrawBegin, CancelBegin, PlaceFailBegin, PlaceCommit,
         WithdrawCommit, CancelCommit
<1> QED BY <1>1, <1>2, <1>3 DEF Abandoned

LEMMA EarlyBefore ==
  ASSUME TypeInv, BidsInv, RefundInv, [Next]_vars, Early'
  PROVE  Early
<1>1. \A r \in Requests : ~Abandoned(r)
  <2> SUFFICES ASSUME NEW r \in Requests, Abandoned(r) PROVE FALSE
    OBVIOUS
  <2>1. Abandoned(r)'
    BY AbandonedForGood
  <2> QED BY <2>1 DEF Early, NoneAbandoned
<1> QED BY <1>1, NoRefundBefore DEF Early, NoneAbandoned

\* What a step does to the sums before the first refund.
LEMMA LedgerMoves ==
  ASSUME TypeInv, BidsInv, RefundInv, AskerInv, [Next]_vars, NoRefund'
  PROVE  \/ UNCHANGED ledger
         \/ \E q \in Requests :
              LET b == req[q].bidder  a == req[q].amount IN
              /\ b \in Bidders
              /\ \/ /\ PlaceCommit(q) \/ WithdrawCommit(q)
                    /\ finished' = finished /\ minting' = [minting EXCEPT ![b] = @ + a]
                 \/ /\ Succeed(q)
                    /\ finished' = [finished EXCEPT ![b] = @ + a]
                    /\ minting' = [minting EXCEPT ![b] = @ - a]
                 \/ /\ PlaceFailCommit(q) \/ WithdrawFail(q)
                    /\ finished' = finished /\ minting' = [minting EXCEPT ![b] = @ - a]
<1>1. ASSUME NEW q \in Requests, PlaceCommit(q) \/ WithdrawCommit(q)
      PROVE  req[q].bidder \in Bidders /\ finished' = finished
             /\ minting' = [minting EXCEPT ![req[q].bidder] = @ + req[q].amount]
  BY <1>1 DEF PlaceCommit, WithdrawCommit, InsertBid, TypeInv, AskersKnown
<1>2. ASSUME NEW q \in Requests, Succeed(q) \/ PlaceFailCommit(q) \/ WithdrawFail(q)
      PROVE  req[q].bidder \in Bidders /\ bid[q].bidder = req[q].bidder /\ bid[q].amount = req[q].amount
  BY <1>2 DEF Succeed, PlaceFailCommit, WithdrawFail, AskerInv
<1>3. ASSUME NEW q \in Requests, Succeed(q)
      PROVE  /\ finished' = [finished EXCEPT ![req[q].bidder] = @ + req[q].amount]
             /\ minting' = [minting EXCEPT ![req[q].bidder] = @ - req[q].amount]
  BY <1>2, <1>3 DEF Succeed, FinishBid
<1>4. ASSUME NEW q \in Requests, PlaceFailCommit(q) \/ WithdrawFail(q)
      PROVE  finished' = finished /\ minting' = [minting EXCEPT ![req[q].bidder] = @ - req[q].amount]
  BY <1>2, <1>4 DEF PlaceFailCommit, WithdrawFail, FailBid
<1>5. \/ UNCHANGED ledger
      \/ \E q \in Requests : \/ PlaceCommit(q) \/ WithdrawCommit(q) \/ Succeed(q)
                             \/ PlaceFailCommit(q) \/ WithdrawFail(q)
  BY NoRefundBefore
     DEF Next, Handle, Close, PlaceBegin, WithdrawBegin, CancelBegin, PlaceFailBegin, CancelCommit,
         CancelReturn, Abort, StopFind, StopWrite, ClosePick, CloseMark, CloseUnsold,
         CloseWithWinner, NothingToRefund, SendToken, PaySeller, PayFails, EndAtOnce, BuyAsk,
         EndSale, RecordSale, ReturnUnsold, Execute, Drop, ApiCrash, CloserCrash, vars, db, ledger
<1>6. ASSUME NEW q \in Requests, PlaceCommit(q) \/ WithdrawCommit(q) \/ Succeed(q)
                                 \/ PlaceFailCommit(q) \/ WithdrawFail(q)
      PROVE  LET b == req[q].bidder  a == req[q].amount IN
              /\ b \in Bidders
              /\ \/ /\ PlaceCommit(q) \/ WithdrawCommit(q)
                    /\ finished' = finished /\ minting' = [minting EXCEPT ![b] = @ + a]
                 \/ /\ Succeed(q)
                    /\ finished' = [finished EXCEPT ![b] = @ + a]
                    /\ minting' = [minting EXCEPT ![b] = @ - a]
                 \/ /\ PlaceFailCommit(q) \/ WithdrawFail(q)
                    /\ finished' = finished /\ minting' = [minting EXCEPT ![b] = @ - a]
  BY <1>1, <1>2, <1>3, <1>4, <1>6
<1> QED BY <1>5, <1>6

\* A patient bidder has at most one row minting.
LEMMA MintingIs ==
  ASSUME TypeInv, BidsInv, SumsInv, AskerInv, OneAsker, Early, NEW b \in Bidders
  PROVE  /\ \A q \in Requests :
              req[q].pc \in {"sent", "failing"} /\ req[q].bidder = b => minting[b] = req[q].amount
         /\ (\A q \in Requests : req[q].pc \in {"sent", "failing"} => req[q].bidder # b) =>
              minting[b] = 0
<1> LedgerOK
  BY DEF TypeInv, TypeOK, LedgerOK
<1>1. ASSUME NEW x \in Rows, Share({"minting"}, b)[x] # 0
      PROVE  x \in Requests /\ req[x].pc \in {"sent", "failing"} /\ req[x].bidder = b
  <2>1. bid[x].status = "minting" /\ bid[x].bidder = b
    BY <1>1 DEF Share
  <2>2. x \in Requests
    BY <2>1 DEF Early, NoRefund, Rows
  <2>3. req[x].pc \in {"sent", "failing"}
    <3>1. req[x].pc # "done"
      BY <2>1, <2>2 DEF Early, NoneAbandoned, Abandoned
    <3>2. req[x] \in RequestType
      BY <2>2 DEF TypeInv, TypeOK
    <3> QED BY <2>1, <2>2, <3>1, <3>2 DEF BidsInv, RequestType
  <2> QED BY <2>1, <2>2, <2>3 DEF AskerInv
<1>2. SumsTo(Rows, Share({"minting"}, b), minting[b])
  BY DEF SumsInv
<1>3. ASSUME NEW q \in Requests, req[q].pc \in {"sent", "failing"}, req[q].bidder = b
      PROVE  minting[b] = req[q].amount
  <2>1. q \in Rows /\ bid[q].status = "minting" /\ bid[q].bidder = b /\ bid[q].amount = req[q].amount
    BY <1>3 DEF BidsInv, AskerInv, Rows
  <2>2. Share({"minting"}, b)[q] = req[q].amount
    BY <2>1 DEF Share
  <2>3. \A y \in Rows \ {q} : Share({"minting"}, b)[y] = 0
    BY <1>1, <1>3 DEF OneAsker
  <2>4. req[q].amount \in Int
    BY DEF TypeInv, TypeOK, RequestType
  <2> QED BY <1>2, <2>1, <2>2, <2>3, <2>4, SumOfOne
<1>4. ASSUME \A q \in Requests : req[q].pc \in {"sent", "failing"} => req[q].bidder # b
      PROVE  minting[b] = 0
  BY <1>1, <1>2, <1>4, SumOfNone
<1> QED BY <1>3, <1>4

-----------------------------------------------------------------------------
(* Withdrawals that do not fail.                                           *)

\* A row that was not inserted has no extrinsic; a withdrawal's is not dropped.
SubmitInv ==
  \A x \in Rows : /\ bid[x].status = "none" => xt[x] = "none"
                  /\ bid[x].amount < 0 => xt[x] # "dropped"

LEMMA SubmitInit == Init => SubmitInv
  BY DEF Init, SubmitInv

LEMMA SubmitStep ==
  ASSUME "transferFails" \notin Faults, TypeInv, BidsInv, RefundInv, SubmitInv, [Next]_vars
  PROVE  SubmitInv'
<1> LedgerOK /\ xt \in [Rows -> {"none", "pool", "executed", "dropped"}]
  BY DEF TypeInv, TypeOK, LedgerOK
<1>1. CASE UNCHANGED <<bid, xt>>
  BY <1>1 DEF SubmitInv
<1>2. ASSUME NEW x \in Rows, NEW b \in Bidders, NEW a \in Int, InsertBid(x, b, a),
             bid[x].status = "none", xt' \in {xt, [xt EXCEPT ![x] = "pool"]}
      PROVE  SubmitInv'
  <2>1. bid'[x].status = "minting" /\ xt'[x] \in {"none", "pool"}
    BY <1>2 DEF SubmitInv, InsertBid, LedgerOK
  <2>2. \A y \in Rows \ {x} : bid'[y] = bid[y] /\ xt'[y] = xt[y]
    BY <1>2 DEF InsertBid, LedgerOK
  <2> QED BY <2>1, <2>2 DEF SubmitInv
<1>3. ASSUME NEW x \in Rows, FinishBid(x) \/ FailBid(x), xt' = xt PROVE SubmitInv'
  <2>1. bid'[x].status # "none" /\ bid'[x].amount = bid[x].amount
    BY <1>3 DEF FinishBid, FailBid, LedgerOK, BidType
  <2>2. \A y \in Rows \ {x} : bid'[y] = bid[y]
    BY <1>3 DEF FinishBid, FailBid, LedgerOK
  <2> QED BY <1>3, <2>1, <2>2 DEF SubmitInv
<1>4. ASSUME NEW r \in Requests, PlaceCommit(r) \/ WithdrawCommit(r) PROVE SubmitInv'
  <2>1. r \in Rows /\ req[r].bidder \in Bidders /\ req[r].amount \in Int
    BY <1>4 DEF PlaceCommit, WithdrawCommit, TypeInv, TypeOK, AskersKnown, RequestType, Rows
  <2>2. bid[r].status = "none" /\ InsertBid(r, req[r].bidder, req[r].amount)
        /\ xt' \in {xt, [xt EXCEPT ![r] = "pool"]}
    BY <1>4 DEF PlaceCommit, WithdrawCommit, BidsInv
  <2> QED BY <1>2, <2>1, <2>2
<1>5. ASSUME NEW b \in Bidders, Refund(b) PROVE SubmitInv'
  <2>1. b \in Rows /\ -closer.owed[b] \in Int
    BY DEF Rows, TypeInv, TypeOK, CloserType
  <2>2. bid[b].status = "none"
    BY <1>5 DEF Refund, Leaders, RefundInv
  <2>3. InsertBid(b, b, -closer.owed[b]) /\ xt' \in {xt, [xt EXCEPT ![b] = "pool"]}
    BY <1>5 DEF Refund
  <2> QED BY <1>2, <2>1, <2>2, <2>3
<1>6. CASE RefundEnd
  <2>1. closer.current \in Rows
    BY <1>6 DEF RefundEnd, TypeInv, WinnerKnown, Rows
  <2> QED BY <1>3, <1>6, <2>1 DEF RefundEnd, chain
<1>7. ASSUME NEW r \in Requests, Succeed(r) \/ PlaceFailCommit(r) \/ WithdrawFail(r) PROVE SubmitInv'
  BY <1>3, <1>7 DEF Succeed, PlaceFailCommit, WithdrawFail, Rows, chain
<1>8. ASSUME NEW x \in Rows, Execute(x) \/ Drop(x) PROVE SubmitInv'
  <2>1. bid' = bid /\ xt[x] = "pool" /\ \A y \in Rows \ {x} : xt'[y] = xt[y]
    BY <1>8 DEF Execute, Drop, db, ledger
  <2>2. bid[x].amount < 0 => xt'[x] # "dropped"
    BY <1>8 DEF Execute, Drop
  <2> QED BY <2>1, <2>2 DEF SubmitInv
<1> QED BY <1>1, <1>4, <1>5, <1>6, <1>7, <1>8
       DEF Next, Handle, Close, PlaceBegin, WithdrawBegin, CancelBegin, PlaceFailBegin,
       CancelCommit, CancelReturn, Abort, StopFind, StopWrite, ClosePick, CloseMark, CloseUnsold,
       CloseWithWinner, NothingToRefund, SendToken, PaySeller, PayFails, EndAtOnce, BuyAsk,
       EndSale, RecordSale, ReturnUnsold, ApiCrash, CloserCrash, vars, db, ledger, chain

\* With a market that can transfer, and that hears of it, no withdrawal fails.
LEMMA NoWithdrawalFails ==
  ASSUME "watchLost" \notin Faults, TypeInv, WithdrawInv, SubmitInv, NEW r \in Requests
  PROVE  ~WithdrawFail(r)
  BY DEF WithdrawFail, Rejected, WithdrawInv, SubmitInv, Rows

(* A withdrawal takes all that its bidder has: the sum of the finished     *)
(* bids that it read in its snapshot has not changed since.                *)
LeaveInv ==
  NoRefund => \A q \in Requests : Asks(q) /\ req[q].kind = "withdraw" =>
                /\ finished[req[q].bidder] > 0
                /\ req[q].amount = -finished[req[q].bidder]

\* Only a request of the bidder itself changes the sum of what it finished.
LEMMA FinishedStays ==
  ASSUME TypeInv, BidsInv, RefundInv, AskerInv, OneAsker, [Next]_vars, NoRefund',
         NEW q \in Requests, req[q].bidder \in Bidders, ~Succeed(q)
  PROVE  finished'[req[q].bidder] = finished[req[q].bidder]
<1> LedgerOK
  BY DEF TypeInv, TypeOK, LedgerOK
<1>1. ASSUME NEW p \in Requests, Succeed(p), req[p].bidder \in Bidders,
             finished' = [finished EXCEPT ![req[p].bidder] = @ + req[p].amount]
      PROVE  finished'[req[q].bidder] = finished[req[q].bidder]
  <2>1. p # q
    BY <1>1
  <2>2. req[p].bidder # req[q].bidder
    BY <1>1, <2>1 DEF OneAsker
  <2> QED BY <1>1, <2>2 DEF LedgerOK
<1> QED BY <1>1, LedgerMoves DEF ledger

LEMMA LeaveStep ==
  ASSUME TypeInv, BidsInv, RefundInv, AskerInv, OneAsker, LeaveInv, [Next]_vars
  PROVE  LeaveInv'
<1> SUFFICES ASSUME NoRefund', NEW q \in Requests, Asks(q)', req'[q].kind = "withdraw"
             PROVE  finished'[req'[q].bidder] > 0 /\ req'[q].amount = -finished'[req'[q].bidder]
  BY DEF LeaveInv
<1> NoRefund /\ LedgerOK /\ req \in [Requests -> RequestType]
  BY NoRefundBefore DEF TypeInv, TypeOK, LedgerOK
<1>1. CASE /\ req'[q].kind = req[q].kind /\ req'[q].bidder = req[q].bidder
           /\ req'[q].amount = req[q].amount /\ Asks(q) /\ ~Succeed(q)
  <2>1. finished'[req[q].bidder] = finished[req[q].bidder]
    BY <1>1, FinishedStays DEF AskerInv
  <2> QED BY <1>1, <2>1 DEF LeaveInv
<1>2. CASE Resumed(q)
  <2>1. ~Succeed(q)
    BY <1>2 DEF Succeed, Resumed, DoneRequest, IdleRequest
  <2> QED BY <1>1, <1>2, <2>1 DEF Resumed, Asks
<1>3. ASSUME NEW b \in Bidders, WithdrawBegin(q, b)
      PROVE  finished'[req'[q].bidder] > 0 /\ req'[q].amount = -finished'[req'[q].bidder]
  BY <1>3 DEF WithdrawBegin, db, ledger
<1>4. CASE WithdrawCommit(q) /\ req'[q] = [req[q] EXCEPT !.pc = "sent", !.missed = {}]
  <2>1. ~Succeed(q) /\ Asks(q)
    BY <1>4 DEF Succeed, WithdrawCommit, Asks
  <2> QED BY <1>1, <1>4, <2>1 DEF RequestType
<1>5. req'[q] # DoneRequest
  BY DEF Asks, DoneRequest, IdleRequest
<1>6. ~CancelBegin(q) /\ ~PlaceFailBegin(q) /\ \A b \in Bidders, a \in Offers : ~PlaceBegin(q, b, a)
  BY DEF CancelBegin, PlaceFailBegin, PlaceBegin, RequestType
<1>7. ~PlaceCommit(q) \/ req'[q] # [req[q] EXCEPT !.pc = "sent", !.missed = {}]
  BY DEF PlaceCommit, RequestType
<1>8. ~CancelCommit(q) \/ req'[q] # [req[q] EXCEPT !.pc = "returning", !.missed = {}]
  BY DEF CancelCommit, RequestType
<1> QED BY <1>2, <1>3, <1>4, <1>5, <1>6, <1>7, <1>8, RequestMoves

-----------------------------------------------------------------------------
(* The ladder: what each bidder has reached, before the first refund.      *)

\* The invariants about requests, rows and sums together.
PricingInv ==
  /\ TypeInv /\ OnceInv /\ BidsInv /\ RefundInv /\ SumsInv /\ WithdrawInv /\ FailingInv
  /\ SnapshotInv /\ AskerInv /\ OneAsker /\ SubmitInv /\ LeaveInv

\* What bidder b will have if its bid, should one be minting, succeeds.
Top(b) == finished[b] + (IF minting[b] > 0 THEN minting[b] ELSE 0)

\* Bidder c has asked for its bids back.
Leaving(c) == \E q \in Requests : Asks(q) /\ req[q].kind = "withdraw" /\ req[q].bidder = c

\* A bid is offered on top of what its bidder has received and still has.
OfferInv ==
  Early => \A q \in Requests :
             req[q].pc = "open" /\ req[q].kind = "place" =>
               req[q].price = finished[req[q].bidder] + req[q].amount

LEMMA OfferStep ==
  ASSUME PatientBidders, PricingInv, OfferInv, [Next]_vars
  PROVE  OfferInv'
<1> SUFFICES ASSUME Early', NEW q \in Requests, req'[q].pc = "open", req'[q].kind = "place"
             PROVE  req'[q].price = finished'[req'[q].bidder] + req'[q].amount
  BY DEF OfferInv
<1> Early
  BY EarlyBefore DEF PricingInv
<1> LedgerOK /\ req \in [Requests -> RequestType]
  BY DEF PricingInv, TypeInv, TypeOK, LedgerOK
<1>1. CASE Resumed(q)
  <2>1. req[q].pc = "open" /\ req[q].kind = "place" /\ ~Succeed(q)
    BY <1>1 DEF Resumed, Succeed
  <2>2. req[q].bidder \in Bidders
    BY <2>1 DEF PricingInv, AskerInv, Asks
  <2>3. finished'[req[q].bidder] = finished[req[q].bidder]
    BY <2>1, <2>2, FinishedStays DEF PricingInv, Early
  <2> QED BY <1>1, <2>1, <2>3 DEF Resumed, OfferInv
<1>2. ASSUME NEW b \in Bidders, NEW a \in Offers, PlaceBegin(q, b, a)
      PROVE  req'[q].price = finished'[req'[q].bidder] + req'[q].amount
  <2>1. /\ req'[q].price = PendingSum[b] + a /\ req'[q].bidder = b /\ req'[q].amount = a
        /\ finished' = finished
    BY <1>2 DEF PlaceBegin, db, ledger
  <2>2. minting[b] = 0
    <3>1. \A p \in Requests : req[p].bidder # b
      BY <1>2 DEF PlaceBegin, MayAsk
    <3> QED BY <3>1, MintingIs DEF PricingInv
  <2>3. PendingSum[b] = finished[b]
    BY <2>2 DEF PendingSum, LedgerOK
  <2> QED BY <2>1, <2>3
<1>3. /\ req'[q] # DoneRequest
      /\ req'[q] # [req[q] EXCEPT !.pc = "sent", !.missed = {}]
      /\ req'[q] # [req[q] EXCEPT !.pc = "returning", !.missed = {}]
  BY DEF DoneRequest, IdleRequest, RequestType
<1>4. ~CancelBegin(q) /\ ~PlaceFailBegin(q) /\ \A b \in Bidders : ~WithdrawBegin(q, b)
  BY DEF WithdrawBegin, CancelBegin, PlaceFailBegin, RequestType
<1>5. TypeInv
  BY DEF PricingInv
<1> QED BY <1>1, <1>2, <1>3, <1>4, <1>5, RequestMoves

\* What a step does to the ladder.
ToppedUp(q, b) ==
  /\ req[q].bidder = b
  /\ \A c \in Bidders \ {b} : finished'[c] = finished[c] /\ Top(c)' = Top(c)
  /\ \/ /\ PlaceCommit(q)
        /\ finished'[b] = finished[b] /\ Top(b)' = req[q].price /\ ask'.price = req[q].price
     \/ /\ PlaceFailCommit(q)
        /\ finished'[b] = finished[b] /\ Top(b)' = finished[b] /\ ask'.price = req[q].price
     \/ /\ Succeed(q) /\ req[q].kind = "place"
        /\ Top(b) = finished[b] + req[q].amount
        /\ finished'[b] = Top(b) /\ Top(b)' = Top(b) /\ ask'.price = ask.price
     \/ /\ Succeed(q) /\ req[q].kind = "withdraw"
        /\ finished[b] > 0 /\ Top(b) = finished[b]
        /\ finished'[b] = 0 /\ Top(b)' = 0 /\ ask'.price = ask.price

LadderStays ==
  /\ UNCHANGED ledger \/ \E q \in Requests : WithdrawCommit(q)
  /\ finished' = finished /\ ask'.price = ask.price
  /\ \A b \in Bidders : Top(b)' = Top(b)

LEMMA LadderMoves ==
  ASSUME PatientBidders, {"transferFails", "watchLost"} \cap Faults = {},
         PricingInv, OfferInv, [Next]_vars, Early'
  PROVE  LadderStays \/ \E q \in Requests, b \in Bidders : ToppedUp(q, b)
<1> TypeInv /\ BidsInv /\ RefundInv /\ SumsInv /\ AskerInv /\ OneAsker /\ FailingInv /\ LeaveInv
    /\ NoRefund' /\ Early /\ NoRefund /\ WithdrawInv /\ SubmitInv
  BY EarlyBefore DEF PricingInv, Early
<1> LedgerOK /\ LedgerOK' /\ req \in [Requests -> RequestType] /\ ask \in AskType
  BY TypeStep DEF TypeInv, TypeOK, LedgerOK
<1>1. CASE UNCHANGED ledger
  <2>1. ~Repriced
    <3>1. \A r \in Requests : ~PlaceCommit(r)
      BY <1>1 DEF PlaceCommit, InsertBid, BidsInv, ledger, LedgerOK, Rows
    <3>2. \A r \in Requests : ~PlaceFailCommit(r)
      BY <1>1 DEF PlaceFailCommit, FailBid, BidsInv, ledger, LedgerOK, Rows, BidType
    <3> QED BY <3>1, <3>2 DEF Repriced
  <2>2. ask'.price = ask.price
    BY <2>1, PriceStays
  <2> QED BY <1>1, <2>2 DEF LadderStays, ledger, Top
<1>2. ASSUME NEW q \in Requests, NEW b \in Bidders, req[q].bidder = b, PlaceCommit(q), finished' = finished,
             minting' = [minting EXCEPT ![b] = @ + req[q].amount]
      PROVE  ToppedUp(q, b)
  <2>1. /\ req[q].pc = "open" /\ req[q].kind = "place" /\ req[q].amount \in Int
        /\ req[q].amount >= 0 /\ Asks(q) /\ ask'.price = req[q].price
    BY <1>2 DEF PlaceCommit, AskerInv, Asks, RequestType, AskType
  <2>2. minting[b] = 0
    <3>1. \A p \in Requests : req[p].pc \in {"sent", "failing"} => req[p].bidder # b
      BY <1>2, <2>1 DEF OneAsker
    <3> QED BY <1>2, <3>1, MintingIs
  <2>3. minting'[b] = req[q].amount
        /\ \A c \in Bidders \ {b} : minting'[c] = minting[c]
    BY <1>2, <2>1, <2>2 DEF LedgerOK
  <2>4. req[q].price = finished[b] + req[q].amount
    BY <1>2, <2>1 DEF OfferInv
  <2>5. Top(b)' = finished[b] + req[q].amount
    BY <1>2, <2>1, <2>3 DEF Top, LedgerOK
  <2>6. \A c \in Bidders \ {b} : Top(c)' = Top(c)
    BY <1>2, <2>3 DEF Top
  <2> QED BY <1>2, <2>1, <2>4, <2>5, <2>6 DEF ToppedUp
<1>3. ASSUME NEW q \in Requests, NEW b \in Bidders, req[q].bidder = b, WithdrawCommit(q), finished' = finished,
             minting' = [minting EXCEPT ![b] = @ + req[q].amount]
      PROVE  LadderStays
  <2>1. /\ req[q].pc = "open" /\ req[q].kind = "withdraw" /\ req[q].amount \in Int /\ Asks(q)
        /\ ask' = ask
    BY <1>3 DEF WithdrawCommit, Asks, RequestType
  <2>2. minting[b] = 0
    <3>1. \A p \in Requests : req[p].pc \in {"sent", "failing"} => req[p].bidder # b
      BY <1>3, <2>1 DEF OneAsker
    <3> QED BY <1>3, <3>1, MintingIs
  <2>3. req[q].amount < 0
    BY <2>1 DEF WithdrawInv
  <2>4. minting'[b] = req[q].amount
        /\ \A c \in Bidders \ {b} : minting'[c] = minting[c]
    BY <1>3, <2>1, <2>2 DEF LedgerOK
  <2>5. Top(b)' = Top(b)
    BY <1>3, <2>1, <2>2, <2>3, <2>4 DEF Top, LedgerOK
  <2>6. \A c \in Bidders \ {b} : Top(c)' = Top(c)
    BY <1>3, <2>4 DEF Top
  <2> QED BY <1>3, <2>1, <2>5, <2>6 DEF LadderStays
<1>4. ASSUME NEW q \in Requests, NEW b \in Bidders, req[q].bidder = b, Succeed(q),
             finished' = [finished EXCEPT ![b] = @ + req[q].amount],
             minting' = [minting EXCEPT ![b] = @ - req[q].amount]
      PROVE  ToppedUp(q, b)
  <2>1. req[q].pc = "sent" /\ req[q].amount \in Int /\ Asks(q) /\ ask' = ask
    BY <1>4 DEF Succeed, AskerInv, RequestType
  <2>2. minting[b] = req[q].amount
    BY <1>4, <2>1, MintingIs
  <2>3. minting'[b] = 0
        /\ \A c \in Bidders \ {b} : minting'[c] = minting[c]
    BY <1>4, <2>1, <2>2 DEF LedgerOK
  <2>4. finished'[b] = finished[b] + req[q].amount
        /\ \A c \in Bidders \ {b} : finished'[c] = finished[c]
    BY <1>4 DEF LedgerOK
  <2>5. Top(b)' = finished[b] + req[q].amount
    BY <1>4, <2>1, <2>3, <2>4 DEF Top, LedgerOK
  <2>6. \A c \in Bidders \ {b} : finished'[c] = finished[c] /\ Top(c)' = Top(c)
    BY <2>3, <2>4 DEF Top
  <2>7. CASE req[q].kind = "place"
    <3>1. req[q].amount >= 0
      BY <2>1, <2>7 DEF AskerInv
    <3>2. Top(b) = finished[b] + req[q].amount
      BY <1>4, <2>1, <2>2, <3>1 DEF Top, LedgerOK
    <3> QED BY <1>4, <2>1, <2>4, <2>5, <2>6, <2>7, <3>2 DEF ToppedUp
  <2>8. CASE req[q].kind = "withdraw"
    <3>1. finished[b] > 0 /\ req[q].amount = -finished[b]
      BY <1>4, <2>1, <2>8 DEF LeaveInv
    <3>2. Top(b) = finished[b]
      BY <1>4, <2>1, <2>2, <3>1 DEF Top, LedgerOK
    <3>3. finished'[b] = 0 /\ Top(b)' = 0
      BY <1>4, <2>4, <2>5, <3>1 DEF LedgerOK
    <3> QED BY <1>4, <2>1, <2>6, <2>8, <3>1, <3>2, <3>3 DEF ToppedUp
  <2> QED BY <2>1, <2>7, <2>8 DEF Asks
<1>5. ASSUME NEW q \in Requests, NEW b \in Bidders, req[q].bidder = b, PlaceFailCommit(q), finished' = finished,
             minting' = [minting EXCEPT ![b] = @ - req[q].amount]
      PROVE  ToppedUp(q, b)
  <2>1. req[q].pc = "failing" /\ req[q].amount \in Int /\ ask'.price = req[q].price
    BY <1>5 DEF PlaceFailCommit, RequestType, AskType
  <2>2. minting[b] = req[q].amount
    BY <1>5, <2>1, MintingIs
  <2>3. minting'[b] = 0
        /\ \A c \in Bidders \ {b} : minting'[c] = minting[c]
    BY <1>5, <2>1, <2>2 DEF LedgerOK
  <2>4. Top(b)' = finished[b]
    BY <1>5, <2>3 DEF Top, LedgerOK
  <2>5. \A c \in Bidders \ {b} : Top(c)' = Top(c)
    BY <1>5, <2>3 DEF Top
  <2> QED BY <1>5, <2>1, <2>4, <2>5 DEF ToppedUp
<1>6. \A q \in Requests : ~WithdrawFail(q)
  BY NoWithdrawalFails
<1> QED BY <1>1, <1>2, <1>3, <1>4, <1>5, <1>6, LedgerMoves

\* Bidders that wait for answers, and a market whose transfers succeed.
Smooth == /\ PatientBidders
          /\ ChainFormat = StoredFormat
          /\ {"transferFails", "watchLost"} \cap Faults = {}

LEMMA PricingInit == Init => PricingInv /\ OfferInv
<1> SUFFICES ASSUME Init PROVE PricingInv /\ OfferInv
  OBVIOUS
<1>1. TypeInv /\ OnceInv /\ BidsInv /\ RefundInv /\ SumsInv /\ AskerInv /\ OneAsker /\ SubmitInv
  BY TypeInit, OnceInit, BidsInit, RefundInit, SumsInit, AskerInit, SubmitInit
<1>2. WithdrawInv /\ FailingInv /\ SnapshotInv /\ LeaveInv /\ OfferInv
  BY DEF Init, IdleRequest, WithdrawInv, FailingInv, SnapshotInv, LeaveInv, OfferInv, Asks
<1> QED BY <1>1, <1>2 DEF PricingInv

LEMMA PricingStep ==
  ASSUME Smooth, PricingInv, [Next]_vars
  PROVE  PricingInv'
<1>1. TypeInv /\ OnceInv /\ BidsInv /\ RefundInv /\ SumsInv /\ WithdrawInv /\ FailingInv
      /\ SnapshotInv /\ AskerInv /\ OneAsker /\ SubmitInv /\ LeaveInv
  BY DEF PricingInv
<1>2. TypeInv' /\ OnceInv' /\ BidsInv' /\ RefundInv' /\ SumsInv' /\ WithdrawInv' /\ FailingInv'
      /\ SnapshotInv' /\ AskerInv'
  BY <1>1, TypeStep, OnceStep, BidsStep, RefundStep, SumsStep, WithdrawStep, FailingStep,
     SnapshotStep, AskerStep
<1>3. OneAsker' /\ SubmitInv' /\ LeaveInv'
  BY <1>1, OneAskerStep, SubmitStep, LeaveStep DEF Smooth
<1> QED BY <1>2, <1>3 DEF PricingInv

\* Nobody has less than the start price, but for those who have nothing.
AtLeastStart ==
  /\ ask.price >= StartPrice
  /\ \A b \in Bidders : /\ finished[b] = 0 \/ finished[b] >= StartPrice
                        /\ Top(b) = 0 \/ Top(b) >= StartPrice

\* Nobody is above the price, and somebody, if anybody bids, has reached it.
UnderPrice == \A b \in Bidders : Top(b) <= ask.price

PriceReached == \/ NoLiveBid /\ ask.price = StartPrice
                \/ \E b \in Bidders : Top(b) = ask.price

\* No two bidders are, or will be, at the same height.
Apart ==
  \A b, c \in Bidders : b # c => /\ finished[b] = finished[c] => finished[b] = 0
                                 /\ finished[b] = Top(c) => finished[b] = 0
                                 /\ Top(b) = Top(c) => Top(b) = 0

\* One bidder has received more than the others have, and has not asked for it back.
Leads(w) == /\ ~Leaving(w) /\ finished[w] > 0
            /\ \A c \in Bidders \ {w} : finished[c] < finished[w]

HasLeader == (\E x \in Rows : bid[x].status = "finished") => \E w \in Bidders : Leads(w)

\* An offer that can still be committed is above the price or adds to what reached it.
OffersAbove ==
  \A q \in Requests :
    req[q].pc = "open" /\ req[q].kind = "place" /\ "ask" \notin req[q].missed =>
      \/ req[q].price > ask.price
      \/ finished[req[q].bidder] = ask.price
      \/ NoLiveBid /\ req[q].price >= StartPrice

\* A bid that is minting lifts its bidder to the start price at least.
SentAbove ==
  \A q \in Requests :
    req[q].pc \in {"sent", "failing"} /\ req[q].kind = "place" => Top(req[q].bidder) >= StartPrice

\* What c will have if the bid of request q fails.
Without(q, c) == IF c = req[q].bidder THEN finished[c] ELSE Top(c)

\* A failure that can still be committed knows the height that is left.
FallsRight ==
  \A q \in Requests :
    req[q].pc = "failing" /\ "ask" \notin req[q].missed =>
      /\ req[q].price >= StartPrice
      /\ \A c \in Bidders : Without(q, c) <= req[q].price
      /\ \/ req[q].price = StartPrice /\ \A x \in Rows \ {q} : bid[x].status \notin Live
         \/ \E c \in Bidders : Without(q, c) = req[q].price

Ladder == /\ AtLeastStart /\ UnderPrice /\ PriceReached /\ Apart /\ HasLeader
          /\ OffersAbove /\ SentAbove /\ FallsRight

LadderInv == Early => Ladder

LEMMA LadderTypes ==
  ASSUME TypeInv
  PROVE  /\ ask.price \in Int /\ StartPrice \in Int /\ StartPrice > 0
         /\ \A b \in Bidders : /\ finished[b] \in Int /\ minting[b] \in Int
                               /\ Top(b) \in Int /\ finished[b] <= Top(b)
         /\ \A q \in Requests : req[q].price \in Int /\ req[q].amount \in Int
  BY ConstantsAssumption DEF TypeInv, TypeOK, Top, AskType, RequestType

\* A bid that is committed is above the price it finds, or adds to what reached it.
LEMMA CommitsAbove ==
  ASSUME PricingInv, Ladder, NEW q \in Requests, PlaceCommit(q)
  PROVE  /\ req[q].pc = "open" /\ req[q].kind = "place" /\ "ask" \notin req[q].missed
         /\ req[q].price >= StartPrice /\ req[q].price >= ask.price
         /\ \/ req[q].price > ask.price
            \/ finished[req[q].bidder] = ask.price
            \/ NoLiveBid
<1>1. req[q].pc = "open" /\ req[q].kind = "place" /\ "ask" \notin req[q].missed
  BY DEF PlaceCommit, CanCommit, Updates
<1>2. req[q].price >= ask.price /\ ask.price >= StartPrice
  BY <1>1 DEF PricingInv, SnapshotInv, Ladder, AtLeastStart
<1>3. req[q].price >= StartPrice
  BY <1>2, LadderTypes DEF PricingInv
<1> QED BY <1>1, <1>2, <1>3 DEF Ladder, OffersAbove

\* A failure that is committed knows the height that is left.
LEMMA FailsRight ==
  ASSUME PricingInv, Ladder, NEW q \in Requests, PlaceFailCommit(q)
  PROVE  /\ req[q].pc = "failing" /\ req[q].price >= StartPrice
         /\ \A c \in Bidders : Without(q, c) <= req[q].price
         /\ \/ req[q].price = StartPrice /\ \A x \in Rows \ {q} : bid[x].status \notin Live
            \/ \E c \in Bidders : Without(q, c) = req[q].price
<1>1. req[q].pc = "failing" /\ req[q].missed \cap Updates(q) = {}
  BY DEF PlaceFailCommit, CanCommit
<1>2. req[q].kind = "place"
  BY <1>1 DEF PricingInv, FailingInv
<1>3. "ask" \notin req[q].missed
  BY <1>1, <1>2 DEF Updates
<1> QED BY <1>1, <1>3 DEF Ladder, FallsRight

LEMMA AtLeastStartStep ==
  ASSUME Smooth, PricingInv, OfferInv, Early, Ladder, [Next]_vars, Early'
  PROVE  AtLeastStart'
<1> TypeInv /\ TypeInv'
  BY TypeStep DEF PricingInv
<1>1. CASE LadderStays
  BY <1>1 DEF LadderStays, Ladder, AtLeastStart
<1>2. ASSUME NEW q \in Requests, NEW b \in Bidders, ToppedUp(q, b)
      PROVE  AtLeastStart'
  <2>1. \A c \in Bidders \ {b} : finished'[c] = finished[c] /\ Top(c)' = Top(c)
    BY <1>2 DEF ToppedUp
  <2>2. /\ ask'.price >= StartPrice
        /\ finished'[b] = 0 \/ finished'[b] >= StartPrice
        /\ Top(b)' = 0 \/ Top(b)' >= StartPrice
    <3>1. CASE PlaceCommit(q) /\ finished'[b] = finished[b] /\ Top(b)' = req[q].price
               /\ ask'.price = req[q].price
      BY <3>1, CommitsAbove DEF Ladder, AtLeastStart
    <3>2. CASE PlaceFailCommit(q) /\ finished'[b] = finished[b] /\ Top(b)' = finished[b]
               /\ ask'.price = req[q].price
      BY <3>2, FailsRight DEF Ladder, AtLeastStart
    <3>3. CASE finished'[b] = Top(b) /\ Top(b)' = Top(b) /\ ask'.price = ask.price
      BY <3>3 DEF Ladder, AtLeastStart
    <3>4. CASE finished'[b] = 0 /\ Top(b)' = 0 /\ ask'.price = ask.price
      BY <3>4 DEF Ladder, AtLeastStart
    <3> QED BY <1>2, <3>1, <3>2, <3>3, <3>4 DEF ToppedUp
  <2> QED BY <2>1, <2>2 DEF Ladder, AtLeastStart
<1> QED BY <1>1, <1>2, LadderMoves DEF Smooth

LEMMA UnderPriceStep ==
  ASSUME Smooth, PricingInv, OfferInv, Early, Ladder, [Next]_vars, Early'
  PROVE  UnderPrice'
<1> TypeInv /\ TypeInv'
  BY TypeStep DEF PricingInv
<1>1. CASE LadderStays
  BY <1>1 DEF LadderStays, Ladder, UnderPrice
<1>2. ASSUME NEW q \in Requests, NEW b \in Bidders, ToppedUp(q, b)
      PROVE  UnderPrice'
  <2> SUFFICES ASSUME NEW c \in Bidders PROVE Top(c)' <= ask'.price
    BY DEF UnderPrice
  <2>1. /\ c # b => Top(c)' = Top(c) /\ finished'[c] = finished[c]
        /\ Top(c) <= ask.price /\ finished[c] <= ask.price /\ ask.price >= 0
    BY <1>2, LadderTypes DEF ToppedUp, Ladder, UnderPrice, AtLeastStart
  <2>2. CASE PlaceCommit(q) /\ Top(b)' = req[q].price /\ ask'.price = req[q].price
    BY <2>1, <2>2, CommitsAbove, LadderTypes
  <2>3. CASE PlaceFailCommit(q) /\ finished'[b] = finished[b] /\ Top(b)' = finished[b]
             /\ ask'.price = req[q].price
    <3>1. Without(q, c) <= req[q].price
      BY <2>3, FailsRight
    <3>2. Top(c)' = Without(q, c)
      BY <1>2, <2>1, <2>3 DEF Without, ToppedUp
    <3> QED BY <2>3, <3>1, <3>2
  <2>4. CASE Top(b)' = Top(b) /\ ask'.price = ask.price
    BY <2>1, <2>4
  <2>5. CASE Top(b)' = 0 /\ ask'.price = ask.price
    BY <2>1, <2>5
  <2> QED BY <1>2, <2>2, <2>3, <2>4, <2>5 DEF ToppedUp
<1> QED BY <1>1, <1>2, LadderMoves DEF Smooth

\* What a bidder has comes from a row of its own.
LEMMA RowsBehind ==
  ASSUME SumsInv, NEW c \in Bidders
  PROVE  /\ finished[c] # 0 => \E x \in Rows : bid[x].status = "finished" /\ bid[x].bidder = c
         /\ minting[c] # 0 => \E x \in Rows : bid[x].status = "minting" /\ bid[x].bidder = c
<1>1. SumsTo(Rows, Share({"finished"}, c), finished[c]) /\ SumsTo(Rows, Share({"minting"}, c), minting[c])
  BY DEF SumsInv
<1>2. ASSUME \A x \in Rows : ~(bid[x].status = "finished" /\ bid[x].bidder = c) PROVE finished[c] = 0
  <2>1. \A x \in Rows : Share({"finished"}, c)[x] = 0
    BY <1>2 DEF Share
  <2> QED BY <1>1, <2>1, SumOfNone
<1>3. ASSUME \A x \in Rows : ~(bid[x].status = "minting" /\ bid[x].bidder = c) PROVE minting[c] = 0
  <2>1. \A x \in Rows : Share({"minting"}, c)[x] = 0
    BY <1>3 DEF Share
  <2> QED BY <1>1, <2>1, SumOfNone
<1> QED BY <1>2, <1>3

LEMMA NothingWithoutBid ==
  ASSUME TypeInv, SumsInv, NoLiveBid, NEW c \in Bidders
  PROVE  finished[c] = 0 /\ minting[c] = 0 /\ Top(c) = 0
<1>1. finished[c] = 0 /\ minting[c] = 0
  BY RowsBehind DEF NoLiveBid, Live
<1> QED BY <1>1 DEF Top

\* A bid that is committed is above everybody else.
LEMMA CommitsAlone ==
  ASSUME PricingInv, Ladder, NEW q \in Requests, PlaceCommit(q), NEW b \in Bidders, req[q].bidder
  = b, NEW c \in Bidders \ {b}
  PROVE  finished[c] < req[q].price /\ Top(c) < req[q].price
<1>1. TypeInv /\ SumsInv
  BY DEF PricingInv
<1>2. /\ req[q].price >= StartPrice /\ req[q].price >= ask.price
      /\ req[q].price > ask.price \/ finished[b] = ask.price \/ NoLiveBid
  BY CommitsAbove
<1>3. /\ Top(c) <= ask.price /\ ask.price >= StartPrice
      /\ finished[b] = Top(c) => finished[b] = 0
  BY DEF Ladder, UnderPrice, AtLeastStart, Apart
<1>4. CASE NoLiveBid
  BY <1>1, <1>2, <1>4, NothingWithoutBid, LadderTypes
<1> QED BY <1>1, <1>2, <1>3, <1>4, LadderTypes

LEMMA ApartStep ==
  ASSUME Smooth, PricingInv, OfferInv, Early, Ladder, [Next]_vars, Early'
  PROVE  Apart'
<1> TypeInv /\ TypeInv' /\ Apart
  BY TypeStep DEF PricingInv, Ladder
<1>1. CASE LadderStays
  BY <1>1 DEF LadderStays, Apart
<1>2. ASSUME NEW q \in Requests, NEW b \in Bidders, ToppedUp(q, b)
      PROVE  Apart'
  <2>1. \A c \in Bidders \ {b} : finished'[c] = finished[c] /\ Top(c)' = Top(c)
    BY <1>2 DEF ToppedUp
  <2>2. ASSUME NEW c \in Bidders \ {b}
        PROVE  /\ finished'[b] = finished[c] => finished[c] = 0
               /\ finished'[b] = Top(c) => finished'[b] = 0
               /\ Top(b)' = finished[c] => finished[c] = 0
               /\ Top(b)' = Top(c) => Top(c) = 0
    <3>1. /\ finished[b] = finished[c] => finished[c] = 0
          /\ finished[b] = Top(c) => finished[b] = 0 /\ Top(c) = 0
          /\ Top(b) = finished[c] => finished[c] = 0
          /\ Top(b) = Top(c) => Top(c) = 0
      BY DEF Apart
    <3>2. CASE PlaceCommit(q) /\ finished'[b] = finished[b] /\ Top(b)' = req[q].price
      <4>1. finished[c] < req[q].price /\ Top(c) < req[q].price
        BY <1>2, <3>2, CommitsAlone DEF ToppedUp
      <4> QED BY <3>1, <3>2, <4>1, LadderTypes
    <3>3. CASE finished'[b] = finished[b] /\ Top(b)' = finished[b]
      BY <3>1, <3>3
    <3>4. CASE finished'[b] = Top(b) /\ Top(b)' = Top(b)
      BY <3>1, <3>4
    <3>5. CASE finished'[b] = 0 /\ Top(b)' = 0
      BY <3>5
    <3> QED BY <1>2, <3>2, <3>3, <3>4, <3>5 DEF ToppedUp
  <2> SUFFICES ASSUME NEW c \in Bidders, NEW d \in Bidders, c # d
               PROVE  /\ finished'[c] = finished'[d] => finished'[c] = 0
                      /\ finished'[c] = Top(d)' => finished'[c] = 0
                      /\ Top(c)' = Top(d)' => Top(c)' = 0
    BY DEF Apart
  <2>3. CASE c = b
    BY <2>1, <2>2, <2>3
  <2>4. CASE d = b
    BY <2>1, <2>2, <2>4
  <2>5. CASE c # b /\ d # b
    BY <2>1, <2>5 DEF Apart
  <2> QED BY <2>3, <2>4, <2>5
<1> QED BY <1>1, <1>2, LadderMoves DEF Smooth

\* A request that waits for its extrinsic did so before, or has just committed.
LEMMA SentBefore ==
  ASSUME TypeInv, [Next]_vars, NEW p \in Requests,
         req'[p].pc \in {"sent", "failing"}, req'[p].kind = "place"
  PROVE  /\ req'[p].bidder = req[p].bidder /\ req'[p].amount = req[p].amount /\ req[p].kind = "place"
         /\ req[p].pc \in {"sent", "failing"} \/ PlaceCommit(p)
<1> req[p] \in RequestType
  BY DEF TypeInv, TypeOK
<1>1. req'[p] # DoneRequest
  BY DEF DoneRequest, IdleRequest
<1>2. /\ ~CancelBegin(p) /\ (\A b \in Bidders : ~WithdrawBegin(p, b))
      /\ \A b \in Bidders, a \in Offers : ~PlaceBegin(p, b, a)
  BY DEF CancelBegin, WithdrawBegin, PlaceBegin, TypeInv, TypeOK, RequestType
<1>3. req'[p] # [req[p] EXCEPT !.pc = "returning", !.missed = {}]
  BY DEF RequestType
<1>4. ~(WithdrawCommit(p) /\ req'[p] = [req[p] EXCEPT !.pc = "sent", !.missed = {}])
  BY DEF WithdrawCommit, RequestType
<1>5. CASE PlaceCommit(p) /\ req'[p] = [req[p] EXCEPT !.pc = "sent", !.missed = {}]
  BY <1>5 DEF PlaceCommit, RequestType
<1>6. CASE PlaceFailBegin(p)
  BY <1>6 DEF PlaceFailBegin, TypeInv, TypeOK, RequestType
<1>7. CASE Resumed(p)
  BY <1>7 DEF Resumed
<1> QED BY <1>1, <1>2, <1>3, <1>4, <1>5, <1>6, <1>7, RequestMoves

\* The bid that is minting is the one that is waited for; true of every state.
MintingKnown ==
  \A q \in Requests :
    req[q].pc \in {"sent", "failing"} /\ req[q].bidder \in Bidders =>
      minting[req[q].bidder] = req[q].amount

LEMMA MintingHolds == PricingInv /\ Early => MintingKnown
  BY MintingIs DEF PricingInv, MintingKnown

LEMMA SentAboveStep ==
  ASSUME Smooth, PricingInv, OfferInv, Early, Ladder, [Next]_vars, Early'
  PROVE  SentAbove'
<1> SUFFICES ASSUME NEW p \in Requests, NEW c, req'[p].bidder = c,
                    req'[p].pc \in {"sent", "failing"}, req'[p].kind = "place"
             PROVE  Top(c)' >= StartPrice
  BY DEF SentAbove
<1> PricingInv'
  BY PricingStep
<1> TypeInv /\ TypeInv' /\ AskerInv /\ AskerInv' /\ OneAsker /\ OneAsker' /\ BidsInv /\ BidsInv'
    /\ SumsInv /\ SumsInv' /\ RefundInv
  BY DEF PricingInv
<1>1. /\ req[p].bidder = c /\ req'[p].amount = req[p].amount /\ req[p].kind = "place"
      /\ req[p].pc \in {"sent", "failing"} \/ PlaceCommit(p)
  BY SentBefore
<1>2. c \in Bidders
  BY DEF AskerInv, Asks
<1>3. minting'[c] = req[p].amount
  <2>1. (PricingInv /\ Early => MintingKnown)'
    BY MintingHolds, PTL
  <2> QED BY <1>1, <1>2, <2>1 DEF MintingKnown
<1>4. ~Succeed(p)
  BY DEF Succeed, DoneRequest, IdleRequest, TypeInv, TypeOK
<1>5. finished'[c] = finished[c]
  BY <1>1, <1>2, <1>4, FinishedStays DEF Early
<1>6. CASE PlaceCommit(p)
  <2>1. req[p].price >= StartPrice /\ req[p].pc = "open"
    BY <1>6, CommitsAbove
  <2>2. req[p].price = finished[c] + req[p].amount
    BY <1>1, <2>1 DEF OfferInv
  <2> QED BY <1>2, <1>3, <1>5, <2>1, <2>2, LadderTypes DEF Top
<1>7. CASE req[p].pc \in {"sent", "failing"}
  <2>1. minting[c] = req[p].amount
    BY <1>1, <1>2, <1>7, MintingIs
  <2>2. Top(c) >= StartPrice
    BY <1>1, <1>7 DEF Ladder, SentAbove
  <2> QED BY <1>3, <1>5, <2>1, <2>2 DEF Top
<1> QED BY <1>1, <1>6, <1>7

\* Only the bidder who leads is not behind somebody.
LEMMA LeavingBehind ==
  ASSUME PricingInv, Ladder, NEW b \in Bidders, finished[b] > 0
  PROVE  \E w \in Bidders : Leads(w) /\ (Leaving(b) => w # b /\ finished[b] < finished[w])
<1>1. PICK x \in Rows : bid[x].status = "finished" /\ bid[x].bidder = b
  BY RowsBehind DEF PricingInv, TypeInv, TypeOK
<1>2. PICK w \in Bidders : Leads(w)
  BY <1>1 DEF Ladder, HasLeader
<1> QED BY <1>2 DEF Leads

LEMMA LeavingBefore ==
  ASSUME TypeInv, [Next]_vars, NEW c \in Bidders, Leaving(c)'
  PROVE  Leaving(c) \/ \E q \in Requests : WithdrawBegin(q, c)
<1> req \in [Requests -> RequestType]
  BY DEF TypeInv, TypeOK
<1>1. PICK q \in Requests : Asks(q)' /\ req'[q].kind = "withdraw" /\ req'[q].bidder = c
  BY DEF Leaving
<1>2. CASE Resumed(q)
  BY <1>1, <1>2 DEF Resumed, Asks, Leaving
<1>3. CASE WithdrawCommit(q) /\ req'[q] = [req[q] EXCEPT !.pc = "sent", !.missed = {}]
  <2>1. req'[q].bidder = req[q].bidder
    BY <1>3 DEF RequestType
  <2>2. Asks(q) /\ req[q].kind = "withdraw"
    BY <1>3 DEF Asks, WithdrawCommit
  <2> QED BY <1>1, <2>1, <2>2 DEF Leaving
<1>4. ASSUME NEW b \in Bidders, WithdrawBegin(q, b) PROVE \E p \in Requests : WithdrawBegin(p, c)
  <2>1. req'[q].bidder = b
    BY <1>4 DEF WithdrawBegin
  <2> QED BY <1>1, <1>4, <2>1
<1>5. /\ req'[q] # DoneRequest /\ ~CancelBegin(q) /\ ~PlaceFailBegin(q)
      /\ \A b \in Bidders, a \in Offers : ~PlaceBegin(q, b, a)
  BY <1>1 DEF Asks, DoneRequest, IdleRequest, CancelBegin, PlaceFailBegin, PlaceBegin, RequestType
<1>6. ~(PlaceCommit(q) /\ req'[q] = [req[q] EXCEPT !.pc = "sent", !.missed = {}])
  BY <1>1 DEF PlaceCommit, RequestType
<1>7. req'[q] # [req[q] EXCEPT !.pc = "returning", !.missed = {}]
  BY <1>1 DEF Asks, RequestType
<1> QED BY <1>2, <1>3, <1>4, <1>5, <1>6, <1>7, RequestMoves

\* The bidder who leads is not let go: checkIfUserIsWinner.
LEMMA LeaderIsKept ==
  ASSUME Smooth, PricingInv, [Next]_vars, NEW w \in Bidders, Leads(w)
  PROVE  ~Leaving(w)'
<1>1. ASSUME NEW q \in Requests, WithdrawBegin(q, w) PROVE FALSE
  <2>1. PICK d \in Leaders(Bidding({"finished"}), finished) :
               Encode(w, ChainFormat) # Encode(d, StoredFormat)
    BY <1>1 DEF WithdrawBegin
  <2>2. d # w
    BY <2>1 DEF Smooth
  <2>3. d \in Bidders
    BY <2>1 DEF Leaders, Bidding, PricingInv, TypeInv, BiddersKnown, Live
  <2>4. w \in Bidding({"finished"})
    BY RowsBehind DEF Leads, Bidding, PricingInv, TypeInv, TypeOK
  <2>5. finished[w] <= finished[d]
    BY <2>1, <2>4 DEF Leaders
  <2>6. finished[d] < finished[w]
    BY <2>2, <2>3 DEF Leads
  <2> QED BY <2>3, <2>5, <2>6 DEF PricingInv, TypeInv, TypeOK
<1> QED BY <1>1, LeavingBefore DEF Leads, PricingInv

LEMMA PriceReachedStep ==
  ASSUME Smooth, PricingInv, OfferInv, Early, Ladder, [Next]_vars, Early'
  PROVE  PriceReached'
<1> TypeInv /\ TypeInv' /\ BidsInv /\ AskerInv /\ LedgerOK
  BY TypeStep DEF PricingInv, TypeInv, TypeOK, LedgerOK
<1>1. CASE LadderStays
  <2>1. CASE NoLiveBid /\ ask.price = StartPrice
    <3>1. \A q \in Requests : ~WithdrawCommit(q)
      BY <2>1, NoLiveBidMeans DEF WithdrawCommit
    <3>2. bid' = bid
      BY <1>1, <3>1 DEF LadderStays, ledger
    <3> QED BY <1>1, <2>1, <3>2 DEF LadderStays, NoLiveBid, PriceReached
  <2>2. ASSUME NEW c \in Bidders, Top(c) = ask.price PROVE PriceReached'
    BY <1>1, <2>2 DEF LadderStays, PriceReached
  <2> QED BY <2>1, <2>2 DEF Ladder, PriceReached
<1>2. ASSUME NEW q \in Requests, NEW b \in Bidders, ToppedUp(q, b)
      PROVE  PriceReached'
  <2>1. \A c \in Bidders \ {b} : Top(c)' = Top(c)
    BY <1>2 DEF ToppedUp
  <2>2. CASE PlaceCommit(q) /\ Top(b)' = req[q].price /\ ask'.price = req[q].price
    BY <2>2 DEF PriceReached
  <2>3. CASE PlaceFailCommit(q) /\ Top(b)' = finished[b] /\ ask'.price = req[q].price
    <3>1. CASE req[q].price = StartPrice /\ \A x \in Rows \ {q} : bid[x].status \notin Live
      <4>1. NoLiveBid'
        BY <2>3, <3>1 DEF PlaceFailCommit, FailBid, NoLiveBid, Live, LedgerOK, Rows, BidType
      <4> QED BY <2>3, <3>1, <4>1 DEF PriceReached
    <3>2. ASSUME NEW c \in Bidders, Without(q, c) = req[q].price PROVE PriceReached'
      <4>1. Top(c)' = Without(q, c)
        BY <1>2, <2>1, <2>3 DEF Without, ToppedUp
      <4> QED BY <2>3, <3>2, <4>1 DEF PriceReached
    <3> QED BY <2>3, <3>1, <3>2, FailsRight
  <2>4. ASSUME Succeed(q) PROVE \E c \in Bidders : Top(c) = ask.price
    <3>1. ~NoLiveBid
      BY <2>4, NoLiveBidMeans DEF Succeed
    <3> QED BY <3>1 DEF Ladder, PriceReached
  <2>5. CASE Succeed(q) /\ Top(b)' = Top(b) /\ ask'.price = ask.price
    BY <2>1, <2>4, <2>5 DEF PriceReached
  <2>6. CASE Succeed(q) /\ req[q].kind = "withdraw" /\ finished[b] > 0 /\ Top(b) = finished[b]
             /\ ask'.price = ask.price
    <3>1. PICK c \in Bidders : Top(c) = ask.price
      BY <2>4, <2>6
    <3>2. Leaving(b)
      BY <1>2, <2>6 DEF Leaving, Asks, Succeed, ToppedUp
    <3>3. PICK w \in Bidders : w # b /\ finished[b] < finished[w]
      BY <2>6, <3>2, LeavingBehind
    <3>4. Top(w) <= ask.price
      BY DEF Ladder, UnderPrice
    <3>5. c # b
      BY <2>6, <3>1, <3>3, <3>4, LadderTypes
    <3> QED BY <2>1, <2>6, <3>1, <3>5 DEF PriceReached
  <2> QED BY <1>2, <2>2, <2>3, <2>5, <2>6 DEF ToppedUp
<1> QED BY <1>1, <1>2, LadderMoves DEF Smooth

LEMMA HasLeaderStep ==
  ASSUME Smooth, PricingInv, OfferInv, Early, Ladder, [Next]_vars, Early'
  PROVE  HasLeader'
<1> SUFFICES ASSUME NEW x \in Rows, bid'[x].status = "finished"
             PROVE  \E w \in Bidders : Leads(w)'
  BY DEF HasLeader
<1> TypeInv /\ TypeInv' /\ BidsInv /\ AskerInv /\ OneAsker /\ SumsInv /\ LedgerOK
  BY TypeStep DEF PricingInv, TypeInv, TypeOK, LedgerOK
\* The leader goes on leading when the others have no more than before.
<1>1. ASSUME bid[x].status = "finished", finished' = finished
      PROVE  \E w \in Bidders : Leads(w)'
  <2>1. PICK w \in Bidders : Leads(w)
    BY <1>1 DEF Ladder, HasLeader
  <2>2. ~Leaving(w)'
    BY <2>1, LeaderIsKept
  <2> QED BY <1>1, <2>1, <2>2 DEF Leads
<1>2. CASE LadderStays
  <2>1. bid[x].status = "finished"
    <3>1. CASE UNCHANGED ledger
      BY <3>1 DEF ledger
    <3>2. ASSUME NEW q \in Requests, WithdrawCommit(q) PROVE bid[x].status = "finished"
      BY <3>2 DEF WithdrawCommit, InsertBid, LedgerOK, Rows
    <3> QED BY <1>2, <3>1, <3>2 DEF LadderStays
  <2> QED BY <1>1, <1>2, <2>1 DEF LadderStays
<1>3. ASSUME NEW q \in Requests, NEW b \in Bidders, ToppedUp(q, b)
      PROVE  \E w \in Bidders : Leads(w)'
  <2>1. \A c \in Bidders \ {b} : finished'[c] = finished[c]
    BY <1>3 DEF ToppedUp
  <2>2. CASE PlaceCommit(q) \/ PlaceFailCommit(q)
    <3>1. bid[x].status = "finished"
      BY <2>2 DEF PlaceCommit, PlaceFailCommit, InsertBid, FailBid, LedgerOK, BidType
    <3>2. finished' = finished
      BY <2>2 DEF PlaceCommit, PlaceFailCommit, InsertBid, FailBid
    <3> QED BY <1>1, <3>1, <3>2
  <2>3. CASE Succeed(q) /\ req[q].kind = "place" /\ finished'[b] = Top(b)
    <3>1. Top(b) >= StartPrice /\ req[q].bidder = b /\ Asks(q)
      BY <1>3, <2>3 DEF Ladder, SentAbove, Succeed, ToppedUp, AskerInv
    <3>2. ~Leaving(b)'
      <4>1. ~Leaving(b)
        BY <2>3, <3>1 DEF Leaving, OneAsker
      <4>2. \A p \in Requests : ~WithdrawBegin(p, b)
        BY <3>1 DEF WithdrawBegin, MayAsk, Smooth
      <4> QED BY <4>1, <4>2, LeavingBefore
    <3>3. ASSUME \A c \in Bidders \ {b} : finished[c] < Top(b) PROVE Leads(b)'
      BY <2>1, <2>3, <3>1, <3>2, <3>3, LadderTypes DEF Leads
    <3>4. CASE \E y \in Rows : bid[y].status = "finished"
      <4>1. PICK w \in Bidders : Leads(w)
        BY <3>4 DEF Ladder, HasLeader
      <4>2. ~Leaving(w)' /\ finished[w] > 0
        BY <4>1, LeaderIsKept DEF Leads
      <4>3. CASE b = w
        <5>1. \A c \in Bidders \ {b} : finished[c] < Top(b)
          BY <4>1, <4>3, LadderTypes DEF Leads
        <5> QED BY <3>3, <5>1
      <4>4. CASE b # w /\ Top(b) < finished[w]
        BY <2>1, <2>3, <4>1, <4>2, <4>4 DEF Leads
      <4>5. CASE b # w /\ Top(b) > finished[w]
        <5>1. \A c \in Bidders \ {b} : finished[c] < Top(b)
          BY <4>1, <4>5, LadderTypes DEF Leads
        <5> QED BY <3>3, <5>1
      <4>6. CASE b # w /\ Top(b) = finished[w]
        BY <4>2, <4>6 DEF Ladder, Apart
      <4> QED BY <4>3, <4>4, <4>5, <4>6, LadderTypes
    <3>5. CASE \A y \in Rows : bid[y].status # "finished"
      <4>1. \A c \in Bidders : finished[c] = 0
        BY <3>5, RowsBehind
      <4> QED BY <3>1, <3>3, <4>1, LadderTypes
    <3> QED BY <3>4, <3>5
  <2>4. CASE Succeed(q) /\ req[q].kind = "withdraw" /\ finished[b] > 0 /\ finished'[b] = 0
    <3>1. Leaving(b)
      BY <1>3, <2>4 DEF Leaving, Asks, Succeed, ToppedUp
    <3>2. PICK w \in Bidders : Leads(w) /\ w # b /\ finished[b] < finished[w]
      BY <2>4, <3>1, LeavingBehind
    <3>3. ~Leaving(w)'
      BY <3>2, LeaderIsKept
    <3> QED BY <2>1, <2>4, <3>2, <3>3, LadderTypes DEF Leads
  <2> QED BY <1>3, <2>2, <2>3, <2>4 DEF ToppedUp
<1> QED BY <1>2, <1>3, LadderMoves DEF Smooth

LEMMA OffersAboveStep ==
  ASSUME Smooth, PricingInv, OfferInv, Early, Ladder, [Next]_vars, Early'
  PROVE  OffersAbove'
<1> SUFFICES ASSUME NEW q \in Requests, NEW b, req'[q].bidder = b,
                    req'[q].pc = "open", req'[q].kind = "place", "ask" \notin req'[q].missed
             PROVE  \/ req'[q].price > ask'.price
                    \/ finished'[b] = ask'.price
                    \/ NoLiveBid' /\ req'[q].price >= StartPrice
  BY DEF OffersAbove
<1> TypeInv /\ TypeInv' /\ BidsInv /\ RefundInv /\ AskerInv /\ OneAsker /\ SumsInv /\ LedgerOK
  BY TypeStep DEF PricingInv, TypeInv, TypeOK, LedgerOK
<1>1. ~Repriced
  BY TransactionSteps DEF InTransaction
<1>2. ask'.price = ask.price
  BY <1>1, PriceStays
<1>3. CASE Resumed(q) /\ InTransaction(q) /\ "ask" \notin req[q].missed
  <2>1. /\ req[q].pc = "open" /\ req[q].kind = "place" /\ req[q].bidder = b
        /\ req'[q].price = req[q].price
    BY <1>3 DEF Resumed
  <2>2. b \in Bidders
    BY <2>1 DEF AskerInv, Asks
  <2>3. finished'[b] = finished[b]
    BY <2>1, <2>2, FinishedStays DEF Early, Succeed
  <2>4. NoLiveBid => NoLiveBid'
    <3>1. NoLiveBid => bid' = bid
      BY <1>1, NoLiveBidStep DEF Repriced
    <3> QED BY <3>1 DEF NoLiveBid
  <2> QED BY <1>2, <1>3, <2>1, <2>3, <2>4 DEF Ladder, OffersAbove
<1>4. ASSUME NEW c \in Bidders, NEW a \in Offers, PlaceBegin(q, c, a)
      PROVE  \/ req'[q].price > ask'.price
             \/ finished'[b] = ask'.price
             \/ NoLiveBid' /\ req'[q].price >= StartPrice
  <2>1. /\ req'[q].price = PendingSum[c] + a /\ req'[q].bidder = c
        /\ finished' = finished /\ bid' = bid /\ a >= MinBidderAmount(c)
    BY <1>4 DEF PlaceBegin, db, ledger
  <2>2. minting[c] = 0
    <3>1. \A p \in Requests : req[p].bidder # c
      BY <1>4 DEF PlaceBegin, MayAsk, Smooth
    <3> QED BY <3>1, MintingIs
  <2>3. PendingSum[c] = finished[c] /\ a \in Int /\ PriceStep \in Int /\ PriceStep > 0
    BY <2>2, ConstantsAssumption DEF PendingSum, LedgerOK
  <2>4. finished[c] <= ask.price
    BY LadderTypes DEF Ladder, UnderPrice
  <2>5. CASE ask.price = StartPrice /\ Bidding(Live) = {}
    <3>1. NoLiveBid'
      BY <2>1, <2>5 DEF NoLiveBid, Bidding
    <3>2. a >= ask.price - finished[c]
      BY <2>1, <2>3, <2>5, LadderTypes DEF MinBidderAmount
    <3> QED BY <1>2, <2>1, <2>3, <2>5, <3>1, <3>2, LadderTypes
  <2>6. CASE ~(ask.price = StartPrice /\ Bidding(Live) = {}) /\ ask.price - finished[c] > 0
    <3>1. a >= ask.price - finished[c] + PriceStep
      BY <2>1, <2>3, <2>6 DEF MinBidderAmount
    <3> QED BY <1>2, <2>1, <2>3, <3>1, LadderTypes
  <2>7. CASE ~(ask.price - finished[c] > 0)
    BY <1>2, <2>1, <2>4, <2>7, LadderTypes
  <2> QED BY <2>5, <2>6, <2>7
<1>5. /\ ~CancelBegin(q) /\ ~PlaceFailBegin(q) /\ \A c \in Bidders : ~WithdrawBegin(q, c)
  BY DEF CancelBegin, PlaceFailBegin, WithdrawBegin, TypeInv, TypeOK, RequestType
<1> QED BY <1>3, <1>4, <1>5, TransactionSteps DEF InTransaction

\* The live rows that wait for a request: a row that is minting and no refund.
LEMMA MintingAsked ==
  ASSUME TypeInv, BidsInv, AskerInv, Early, NEW y \in Rows, bid[y].status = "minting"
  PROVE  /\ y \in Requests /\ req[y].pc \in {"sent", "failing"} /\ Asks(y)
         /\ req[y].bidder \in Bidders /\ bid[y].bidder = req[y].bidder
<1>1. y \in Requests
  BY DEF Early, NoRefund, Rows
<1>2. req[y].pc \in {"sent", "failing"}
  <2>1. req[y].pc # "done"
    BY <1>1 DEF Early, NoneAbandoned, Abandoned
  <2>2. req[y] \in RequestType
    BY <1>1 DEF TypeInv, TypeOK
  <2> QED BY <1>1, <2>1, <2>2 DEF BidsInv, RequestType
<1> QED BY <1>1, <1>2 DEF AskerInv

\* handleBidTxFail subtracts the right amount, except for those who are leaving.
LEMMA LeftIs ==
  ASSUME PricingInv, Early, NEW q \in Requests, req[q].pc \in {"sent", "failing"},
         req[q].kind = "place", NEW c \in Bidders
  PROVE  /\ ~Leaving(c) => LeftBy(q)[c] = Without(q, c)
         /\ Leaving(c) => LeftBy(q)[c] <= finished[c] /\ Without(q, c) = finished[c]
<1> TypeInv /\ BidsInv /\ SumsInv /\ AskerInv /\ OneAsker /\ LeaveInv /\ LedgerOK /\ NoRefund
  BY DEF PricingInv, TypeInv, TypeOK, LedgerOK, Early
<1>1. /\ Asks(q) /\ req[q].bidder \in Bidders /\ bid[q].bidder = req[q].bidder
      /\ bid[q].amount = req[q].amount /\ req[q].amount \in Int
  BY LadderTypes DEF AskerInv
<1>2. CASE c = req[q].bidder
  <2>1. minting[c] = req[q].amount
    BY <1>2, MintingIs
  <2>2. LeftBy(q)[c] = finished[c]
    BY <1>1, <1>2, <2>1 DEF LeftBy, PendingSum, LedgerOK
  <2>3. ~Leaving(c)
    BY <1>1, <1>2 DEF Leaving, OneAsker
  <2> QED BY <1>2, <2>2, <2>3 DEF Without
<1>3. CASE c # req[q].bidder
  <2>1. LeftBy(q)[c] = finished[c] + minting[c] /\ Without(q, c) = Top(c)
    BY <1>1, <1>3 DEF LeftBy, PendingSum, Without
  <2>2. CASE \A p \in Requests : req[p].pc \in {"sent", "failing"} => req[p].bidder # c
    <3>1. minting[c] = 0
      BY <2>2, MintingIs
    <3> QED BY <2>1, <3>1, LadderTypes DEF Top
  <2>3. ASSUME NEW p \in Requests, req[p].pc \in {"sent", "failing"}, req[p].bidder = c
        PROVE  /\ ~Leaving(c) => LeftBy(q)[c] = Without(q, c)
               /\ Leaving(c) => LeftBy(q)[c] <= finished[c] /\ Without(q, c) = finished[c]
    <3>1. minting[c] = req[p].amount /\ Asks(p) /\ req[p].amount \in Int
      BY <2>3, MintingIs, LadderTypes DEF AskerInv
    <3>2. CASE req[p].kind = "place"
      <4>1. req[p].amount >= 0
        BY <3>1, <3>2 DEF AskerInv
      <4>2. ~Leaving(c)
        BY <2>3, <3>2 DEF Leaving, OneAsker
      <4> QED BY <2>1, <3>1, <4>1, <4>2, LadderTypes DEF Top
    <3>3. CASE req[p].kind = "withdraw"
      <4>1. Leaving(c) /\ req[p].amount = -finished[c] /\ finished[c] > 0
        BY <2>3, <3>1, <3>3 DEF Leaving, LeaveInv
      <4> QED BY <2>1, <3>1, <4>1, LadderTypes DEF Top
    <3> QED BY <3>1, <3>2, <3>3 DEF Asks
  <2> QED BY <2>2, <2>3
<1> QED BY <1>2, <1>3

\* A bidder who has something without the bid of q has a live row other than q's.
LEMMA LeftHasRow ==
  ASSUME PricingInv, Early, NEW q \in Requests, req[q].pc \in {"sent", "failing"},
         NEW c \in Bidders, Without(q, c) > 0
  PROVE  \E x \in Rows \ {q} : bid[x].status \in Live /\ bid[x].bidder = c
<1> TypeInv /\ SumsInv /\ BidsInv /\ AskerInv
  BY DEF PricingInv
<1>1. bid[q].status = "minting" /\ bid[q].bidder = req[q].bidder
  BY DEF BidsInv, AskerInv
<1>2. CASE finished[c] # 0
  BY <1>1, <1>2, RowsBehind DEF Live
<1>3. CASE finished[c] = 0
  <2>1. c # req[q].bidder /\ minting[c] # 0
    BY <1>3, LadderTypes DEF Without, Top
  <2> QED BY <1>1, <2>1, RowsBehind DEF Live
<1> QED BY <1>2, <1>3

\* If anybody else has a live bid, somebody who is not leaving has.
LEMMA SomebodyLeft ==
  ASSUME PricingInv, Ladder, Early, NEW q \in Requests, req[q].pc \in {"sent", "failing"},
         NEW y \in Rows \ {q}, bid[y].status \in Live
  PROVE  \E w \in Bidders : /\ ~Leaving(w) /\ Without(q, w) >= StartPrice
                            /\ \A c \in Bidders : Leaving(c) => finished[c] < Without(q, w)
<1> TypeInv /\ BidsInv /\ SumsInv /\ AskerInv /\ OneAsker /\ LeaveInv /\ NoRefund
  BY DEF PricingInv, Early
<1>1. CASE \E x \in Rows : bid[x].status = "finished"
  <2>1. PICK w \in Bidders : Leads(w)
    BY <1>1 DEF Ladder, HasLeader
  <2>2. finished[w] > 0 /\ ~Leaving(w) /\ \A c \in Bidders \ {w} : finished[c] < finished[w]
    BY <2>1 DEF Leads
  <2>3. finished[w] >= StartPrice
    BY <2>2, LadderTypes DEF Ladder, AtLeastStart
  <2>4. Without(q, w) >= finished[w] /\ Without(q, w) \in Int
    BY LadderTypes DEF Without
  <2>5. \A c \in Bidders : Leaving(c) => finished[c] < Without(q, w)
    BY <2>2, <2>4, LadderTypes
  <2> QED BY <2>2, <2>3, <2>4, <2>5, LadderTypes
<1>2. CASE \A x \in Rows : bid[x].status # "finished"
  <2>1. \A c \in Bidders : finished[c] = 0
    BY <1>2, RowsBehind
  <2>2. \A c \in Bidders : ~Leaving(c)
    BY <2>1 DEF Leaving, LeaveInv
  <2>3. bid[y].status = "minting"
    BY <1>2 DEF Live
  <2>4. /\ y \in Requests /\ req[y].pc \in {"sent", "failing"} /\ Asks(y)
        /\ req[y].bidder \in Bidders
    BY <2>3, MintingAsked
  <2>5. req[y].kind = "place"
    BY <2>2, <2>4 DEF Asks, Leaving
  <2>6. Top(req[y].bidder) >= StartPrice
    BY <2>4, <2>5 DEF Ladder, SentAbove
  <2>7. req[y].bidder # req[q].bidder
    BY <2>4 DEF OneAsker
  <2> QED BY <2>2, <2>4, <2>6, <2>7 DEF Without
<1> QED BY <1>1, <1>2

\* handleBidTxFail finds the height that is left.
LEMMA FallBegins ==
  ASSUME PricingInv, Ladder, Early, NEW q \in Requests, PlaceFailBegin(q)
  PROVE  /\ req'[q].price >= StartPrice
         /\ \A c \in Bidders : Without(q, c) <= req'[q].price
         /\ \/ req'[q].price = StartPrice /\ \A x \in Rows \ {q} : bid[x].status \notin Live
            \/ \E c \in Bidders : Without(q, c) = req'[q].price
<1> DEFINE others == {bid[x].bidder : x \in {y \in Rows \ {q} : bid[y].status \in Live}}
           prices == IF others = {} THEN {StartPrice}
                     ELSE {LeftBy(q)[w] : w \in Leaders(others, LeftBy(q))}
<1> TypeInv /\ BidsInv
  BY DEF PricingInv
<1>1. req[q].pc = "sent" /\ req[q].kind = "place" /\ req'[q].price \in prices
  <2>1. PICK price \in prices : req' = [req EXCEPT ![q].pc = "failing", ![q].price = price]
    BY DEF PlaceFailBegin, LeftBy
  <2>2. req'[q].price = price
    BY <2>1 DEF TypeInv, TypeOK, RequestType
  <2> QED BY <2>1, <2>2 DEF PlaceFailBegin
<1>2. \A c \in Bidders : Without(q, c) > 0 => c \in others
  BY <1>1, LeftHasRow
<1>3. others \subseteq Bidders
  BY DEF TypeInv, BiddersKnown
<1>4. \A c \in Bidders : Without(q, c) \in Int
  BY LadderTypes DEF Without
<1>5. CASE others = {}
  <2>1. req'[q].price = StartPrice
    BY <1>1, <1>5
  <2>2. \A x \in Rows \ {q} : bid[x].status \notin Live
    BY <1>5
  <2>3. \A c \in Bidders : Without(q, c) <= StartPrice
    BY <1>2, <1>4, <1>5, LadderTypes
  <2> QED BY <2>1, <2>2, <2>3, LadderTypes
<1>6. CASE others # {}
  <2>1. PICK d \in Leaders(others, LeftBy(q)) : req'[q].price = LeftBy(q)[d]
    BY <1>1, <1>6
  <2>2. d \in others /\ d \in Bidders /\ \A c \in others : LeftBy(q)[c] <= req'[q].price
    BY <1>3, <2>1 DEF Leaders
  <2>3. PICK y \in Rows \ {q} : bid[y].status \in Live
    BY <1>6
  <2>4. PICK w \in Bidders : /\ ~Leaving(w) /\ Without(q, w) >= StartPrice
                             /\ \A c \in Bidders : Leaving(c) => finished[c] < Without(q, w)
    BY <1>1, <2>3, SomebodyLeft
  <2>5. w \in others
    BY <1>2, <1>4, <2>4, LadderTypes
  <2>6. LeftBy(q)[w] = Without(q, w)
    BY <1>1, <2>4, LeftIs
  <2>7. LeftBy(q)[d] \in Int
    <3>1. Leaving(d) => LeftBy(q)[d] = PendingSum[d] \/ LeftBy(q)[d] = PendingSum[d] - bid[q].amount
      BY <2>2 DEF LeftBy, PendingSum
    <3> QED BY <2>2 DEF LeftBy, PendingSum, TypeInv, TypeOK, BidType, Rows
  <2>8. Without(q, w) <= req'[q].price /\ req'[q].price \in Int
    BY <2>1, <2>2, <2>5, <2>6, <2>7
  <2>9. ~Leaving(d)
    <3>1. Leaving(d) => LeftBy(q)[d] <= finished[d] /\ finished[d] < Without(q, w)
      BY <1>1, <2>2, <2>4, LeftIs
    <3> QED BY <1>4, <2>1, <2>2, <2>7, <2>8, <3>1, LadderTypes
  <2>10. Without(q, d) = req'[q].price
    BY <1>1, <2>1, <2>2, <2>9, LeftIs
  <2>11. ASSUME NEW c \in Bidders PROVE Without(q, c) <= req'[q].price
    <3>1. CASE Leaving(c)
      <4>1. Without(q, c) = finished[c] /\ finished[c] < Without(q, w)
        BY <1>1, <2>4, <3>1, LeftIs
      <4> QED BY <1>4, <2>8, <4>1
    <3>2. CASE ~Leaving(c) /\ Without(q, c) > 0
      <4>1. c \in others /\ LeftBy(q)[c] = Without(q, c)
        BY <1>1, <1>2, <3>2, LeftIs
      <4> QED BY <2>2, <4>1
    <3>3. CASE ~(Without(q, c) > 0)
      BY <1>4, <2>4, <2>8, <3>3, LadderTypes
    <3> QED BY <3>1, <3>2, <3>3
  <2> QED BY <1>4, <2>2, <2>4, <2>8, <2>10, <2>11, LadderTypes
<1> QED BY <1>5, <1>6

LEMMA FallsRightStep ==
  ASSUME Smooth, PricingInv, OfferInv, Early, Ladder, [Next]_vars, Early'
  PROVE  FallsRight'
<1> SUFFICES ASSUME NEW q \in Requests, req'[q].pc = "failing", "ask" \notin req'[q].missed
             PROVE  /\ req'[q].price >= StartPrice
                    /\ \A c \in Bidders : Without(q, c)' <= req'[q].price
                    /\ \/ req'[q].price = StartPrice
                          /\ \A x \in Rows \ {q} : bid'[x].status \notin Live
                       \/ \E c \in Bidders : Without(q, c)' = req'[q].price
  BY DEF FallsRight
<1> DEFINE Kept == /\ req'[q].price >= StartPrice
                   /\ \A c \in Bidders : Without(q, c)' <= req'[q].price
                   /\ \/ req'[q].price = StartPrice
                         /\ \A x \in Rows \ {q} : bid'[x].status \notin Live
                      \/ \E c \in Bidders : Without(q, c)' = req'[q].price
<1> SUFFICES Kept
  OBVIOUS
<1> TypeInv /\ TypeInv' /\ BidsInv /\ RefundInv /\ AskerInv /\ OneAsker /\ SumsInv /\ LedgerOK
    /\ LeaveInv /\ NoRefund
  BY TypeStep DEF PricingInv, TypeInv, TypeOK, LedgerOK, Early
<1>1. /\ ~Repriced
      /\ \/ Resumed(q) /\ "ask" \notin req[q].missed
         \/ PlaceFailBegin(q)
  <2>1. /\ ~CancelBegin(q) /\ (\A b \in Bidders : ~WithdrawBegin(q, b))
        /\ \A b \in Bidders, a \in Offers : ~PlaceBegin(q, b, a)
    BY DEF CancelBegin, PlaceBegin, WithdrawBegin, TypeInv, TypeOK, RequestType
  <2> QED BY <2>1, TransactionSteps DEF InTransaction
<1>2. CASE PlaceFailBegin(q)
  <2>1. bid' = bid /\ finished' = finished /\ minting' = minting /\ req'[q].bidder = req[q].bidder
    BY <1>2 DEF PlaceFailBegin, db, ledger, TypeInv, TypeOK, RequestType
  <2>2. \A c \in Bidders : Without(q, c)' = Without(q, c)
    BY <2>1 DEF Without, Top
  <2> QED BY <1>2, <2>1, <2>2, FallBegins
<1>3. CASE Resumed(q) /\ "ask" \notin req[q].missed
  <2>1. req[q].pc = "failing" /\ req'[q].price = req[q].price /\ req'[q].bidder = req[q].bidder
    BY <1>3 DEF Resumed
  <2>2. /\ req[q].price >= StartPrice
        /\ \A c \in Bidders : Without(q, c) <= req[q].price
        /\ \/ req[q].price = StartPrice /\ \A x \in Rows \ {q} : bid[x].status \notin Live
           \/ \E c \in Bidders : Without(q, c) = req[q].price
    BY <1>3, <2>1 DEF Ladder, FallsRight
  <2>3. bid[q].status = "minting" /\ Asks(q) /\ req[q].bidder \in Bidders
    BY <2>1 DEF BidsInv, AskerInv
  <2>4. CASE LadderStays
    <3>1. \A c \in Bidders : Without(q, c)' = Without(q, c)
      BY <2>1, <2>4 DEF Without, LadderStays
    <3>2. CASE \A x \in Rows \ {q} : bid[x].status \notin Live
      <4>1. \A p \in Requests : ~WithdrawCommit(p)
        <5> SUFFICES ASSUME NEW p \in Requests, WithdrawCommit(p) PROVE FALSE
          OBVIOUS
        <5>1. req[p].bidder \in Bidders /\ finished[req[p].bidder] > 0
          BY DEF WithdrawCommit, LeaveInv, AskerInv, Asks
        <5>2. PICK x \in Rows : bid[x].status = "finished"
          BY <5>1, RowsBehind, LadderTypes
        <5> QED BY <2>3, <3>2, <5>2 DEF Live
      <4> QED BY <2>1, <2>2, <2>4, <3>1, <3>2, <4>1 DEF LadderStays, ledger
    <3> QED BY <2>1, <2>2, <3>1, <3>2
  <2>5. ASSUME NEW p \in Requests, NEW d \in Bidders, ToppedUp(p, d) PROVE Kept
    <3>1. Succeed(p) /\ req[p].bidder = d /\ p # q
      BY <1>1, <2>1, <2>5 DEF ToppedUp, Repriced, Succeed
    <3>2. d # req[q].bidder
      BY <2>3, <3>1 DEF OneAsker
    <3>3. \E x \in Rows \ {q} : bid[x].status \in Live
      BY <3>1 DEF Succeed, BidsInv, Rows, Live
    <3>4. PICK c \in Bidders : Without(q, c) = req[q].price
      BY <2>2, <3>3
    <3>5. \A e \in Bidders \ {d} : Without(q, e)' = Without(q, e)
      BY <2>1, <2>5 DEF ToppedUp, Without
    <3>6. Without(q, d) = Top(d) /\ Without(q, d)' = Top(d)'
      BY <2>1, <3>2 DEF Without
    <3>7. CASE Top(d)' = Top(d)
      <4>1. \A e \in Bidders : Without(q, e)' = Without(q, e)
        BY <3>5, <3>6, <3>7
      <4> QED BY <2>1, <2>2, <3>4, <4>1
    <3>8. CASE req[p].kind = "withdraw" /\ finished[d] > 0 /\ Top(d) = finished[d] /\ Top(d)' = 0
      <4>1. Leaving(d)
        BY <3>1, <3>8 DEF Leaving, Asks, Succeed
      <4>2. PICK w \in Bidders : w # d /\ finished[d] < finished[w]
        BY <3>8, <4>1, LeavingBehind
      <4>3. finished[w] <= Without(q, w) /\ Without(q, w) <= req[q].price /\ Without(q, w) \in Int
        BY <2>2, LadderTypes DEF Without
      <4>4. c # d
        BY <3>4, <3>6, <3>8, <4>2, <4>3, LadderTypes
      <4>5. Without(q, c)' = req'[q].price
        BY <2>1, <3>4, <3>5, <4>4
      <4>6. ASSUME NEW e \in Bidders PROVE Without(q, e)' <= req'[q].price
        <5>1. CASE e = d
          BY <2>1, <2>2, <3>6, <3>8, <5>1, LadderTypes
        <5>2. CASE e # d
          BY <2>1, <2>2, <3>5, <5>2
        <5> QED BY <5>1, <5>2
      <4> QED BY <2>1, <2>2, <4>5, <4>6
    <3> QED BY <1>1, <2>5, <3>1, <3>7, <3>8 DEF ToppedUp, Repriced
  <2> HIDE DEF Kept
  <2> QED BY <2>4, <2>5, LadderMoves DEF Smooth
<1> HIDE DEF Kept
<1> QED BY <1>1, <1>2, <1>3

LEMMA LadderInit == Init => LadderInv
<1> SUFFICES ASSUME Init PROVE Ladder
  BY DEF LadderInv
<1>1. /\ ask.price = StartPrice /\ StartPrice \in Int
      /\ \A b \in Bidders : finished[b] = 0 /\ Top(b) = 0
      /\ \A x \in Rows : bid[x].status = "none"
      /\ \A q \in Requests : req[q].pc = "idle"
  BY ConstantsAssumption DEF Init, IdleRequest, Top
<1>2. StartPrice > 0
  BY ConstantsAssumption
<1> QED BY <1>1, <1>2
       DEF Ladder, AtLeastStart, UnderPrice, PriceReached, Apart, HasLeader, OffersAbove, SentAbove,
           FallsRight, NoLiveBid, Live

LEMMA LadderStep ==
  ASSUME Smooth, PricingInv, OfferInv, LadderInv, [Next]_vars
  PROVE  LadderInv'
<1> SUFFICES ASSUME Early' PROVE Ladder'
  BY DEF LadderInv
<1>1. Early /\ Ladder
  BY EarlyBefore DEF PricingInv, LadderInv
<1> QED BY <1>1, AtLeastStartStep, UnderPriceStep, PriceReachedStep, ApartStep, HasLeaderStep,
           OffersAboveStep, SentAboveStep, FallsRightStep DEF Ladder

\* While bids are accepted nobody is refunded.
LEMMA AcceptingIsEarly == PricingInv /\ Accepting /\ NoneAbandoned => Early
  BY DEF PricingInv, RefundInv, Accepting, Early, NoRefund

(* The price never falls below the start price, when bidders wait for      *)
(* their answers and the market's transfers succeed: handleBidTxFail sets  *)
(* it to what some bidder still has or to the start price itself.          *)
THEOREM StartPriceHolds ==
  ASSUME Smooth PROVE Spec => []PriceAtLeastStart
<1>1. Init => PricingInv /\ OfferInv /\ LadderInv
  BY PricingInit, LadderInit
<1>2. PricingInv /\ OfferInv /\ LadderInv /\ [Next]_vars => (PricingInv /\ OfferInv /\ LadderInv)'
  BY PricingStep, OfferStep, LadderStep DEF Smooth
<1>3. PricingInv /\ LadderInv => PriceAtLeastStart
  BY AcceptingIsEarly DEF LadderInv, Ladder, AtLeastStart, PriceAtLeastStart
<1> QED BY <1>1, <1>2, <1>3, PTL DEF Spec

-----------------------------------------------------------------------------
(* The lead.                                                               *)

LeadKnown == \A w \in Bidders : Leads(w) => Lead = finished[w]

LEMMA LeadIs == PricingInv => LeadKnown
<1> SUFFICES ASSUME PricingInv, NEW w \in Bidders, Leads(w) PROVE Lead = finished[w]
  BY DEF LeadKnown
<1> DEFINE P == Bidding({"finished"})
<1> TypeInv /\ SumsInv /\ LedgerOK
  BY DEF PricingInv, TypeInv, TypeOK, LedgerOK
<1>1. w \in P
  BY RowsBehind DEF Leads, Bidding
<1>2. P \subseteq Bidders
  BY DEF Bidding, TypeInv, BiddersKnown, Live
<1>3. w \in Leaders(P, finished)
  BY <1>1, <1>2, LadderTypes DEF Leaders, Leads
<1>4. ASSUME NEW d \in Leaders(P, finished) PROVE d = w
  <2>1. d \in Bidders /\ finished[w] <= finished[d]
    BY <1>1, <1>2 DEF Leaders
  <2> QED BY <2>1, LadderTypes DEF Leads
<1>5. (CHOOSE d \in Leaders(P, finished) : TRUE) = w
  BY <1>3, <1>4
<1> HIDE DEF P
<1> QED BY <1>1, <1>5 DEF Lead, P

\* What was received changes when a bid, a withdrawal or a refund succeeds.
LEMMA ReceivedMoves ==
  ASSUME TypeInv, BidsInv, RefundInv, [Next]_vars, \A q \in Requests : ~Succeed(q), ~RefundEnd
  PROVE  finished' = finished /\ Bidding({"finished"})' = Bidding({"finished"})
<1> LedgerOK /\ Rows = Requests \cup Bidders
  BY DEF TypeInv, TypeOK, LedgerOK, Rows
<1>1. CASE UNCHANGED ledger
  BY <1>1 DEF ledger, Bidding
<1>2. ASSUME NEW x \in Rows, NEW b, NEW a, InsertBid(x, b, a), bid[x].status = "none"
      PROVE  finished' = finished /\ Bidding({"finished"})' = Bidding({"finished"})
  <2>1. bid'[x].status = "minting" /\ \A y \in Rows \ {x} : bid'[y] = bid[y]
    BY <1>2 DEF InsertBid, LedgerOK
  <2>2. {y \in Rows : bid'[y].status \in {"finished"}} = {y \in Rows : bid[y].status \in {"finished"}}
    BY <1>2, <2>1
  <2> QED BY <1>2, <2>1, <2>2 DEF InsertBid, Bidding
<1>3. ASSUME NEW x \in Rows, FailBid(x), bid[x].status = "minting"
      PROVE  finished' = finished /\ Bidding({"finished"})' = Bidding({"finished"})
  <2>1. bid'[x].status = "error" /\ \A y \in Rows \ {x} : bid'[y] = bid[y]
    BY <1>3 DEF FailBid, LedgerOK, BidType
  <2>2. {y \in Rows : bid'[y].status \in {"finished"}} = {y \in Rows : bid[y].status \in {"finished"}}
    BY <1>3, <2>1
  <2> QED BY <1>3, <2>1, <2>2 DEF FailBid, Bidding
<1>4. ASSUME NEW r \in Requests, PlaceCommit(r) \/ WithdrawCommit(r)
      PROVE  InsertBid(r, req[r].bidder, req[r].amount) /\ bid[r].status = "none"
  BY <1>4 DEF PlaceCommit, WithdrawCommit, BidsInv
<1>5. ASSUME NEW b \in Bidders, Refund(b)
      PROVE  InsertBid(b, b, -closer.owed[b]) /\ bid[b].status = "none"
  BY <1>5 DEF Refund, Leaders, RefundInv
<1>6. ASSUME NEW r \in Requests, PlaceFailCommit(r) \/ WithdrawFail(r)
      PROVE  FailBid(r) /\ bid[r].status = "minting"
  BY <1>6 DEF PlaceFailCommit, WithdrawFail, BidsInv
<1>7. \/ UNCHANGED ledger
      \/ \E r \in Requests : PlaceCommit(r) \/ WithdrawCommit(r) \/ PlaceFailCommit(r) \/ WithdrawFail(r)
      \/ \E b \in Bidders : Refund(b)
  BY DEF Next, Handle, Close, PlaceBegin, WithdrawBegin, CancelBegin, PlaceFailBegin, CancelCommit,
         CancelReturn, Abort, StopFind, StopWrite, ClosePick, CloseMark, CloseUnsold,
         CloseWithWinner, NothingToRefund, SendToken, PaySeller, PayFails, EndAtOnce, BuyAsk,
         EndSale, RecordSale, ReturnUnsold, Execute, Drop, ApiCrash, CloserCrash, vars, db, ledger
<1> QED BY <1>1, <1>2, <1>3, <1>4, <1>5, <1>6, <1>7

LEMMA LeadStep ==
  ASSUME Smooth, PricingInv, OfferInv, LadderInv, [Next]_vars, Accepting, NoneAbandoned
  PROVE  Lead' >= Lead
<1> Early /\ Ladder
  BY AcceptingIsEarly DEF LadderInv
<1> TypeInv /\ TypeInv' /\ BidsInv /\ RefundInv /\ SumsInv /\ LedgerOK /\ NoRefund
  BY TypeStep DEF PricingInv, TypeInv, TypeOK, LedgerOK, Early
<1>1. ~RefundEnd
  BY DEF RefundEnd, RefundInv, Accepting, TypeInv, WinnerKnown
<1>2. CASE \A q \in Requests : ~Succeed(q)
  <2>1. finished' = finished /\ Bidding({"finished"})' = Bidding({"finished"})
    BY <1>1, <1>2, ReceivedMoves
  <2>2. CASE \E x \in Rows : bid[x].status = "finished"
    <3>1. PICK w \in Bidders : Leads(w)
      BY <2>2 DEF Ladder, HasLeader
    <3>2. Leads(w)'
      BY <2>1, <3>1, LeaderIsKept DEF Leads
    <3>3. Lead = finished[w]
      BY <3>1, LeadIs DEF LeadKnown
    <3>4. Lead' = finished'[w]
      <4>1. (PricingInv => LeadKnown)'
        BY LeadIs, PTL
      <4> QED BY <3>2, <4>1, PricingStep DEF LeadKnown
    <3> QED BY <2>1, <3>3, <3>4, LadderTypes
  <2>3. CASE \A x \in Rows : bid[x].status # "finished"
    <3>1. Bidding({"finished"}) = {}
      BY <2>3 DEF Bidding
    <3>2. Lead = 0 /\ Lead' = 0
      BY <2>1, <3>1 DEF Lead
    <3> QED BY <3>2
  <2> QED BY <2>2, <2>3
<1>3. ASSUME NEW q \in Requests, Succeed(q) PROVE Lead' >= Lead
  <2>1. /\ q \in Rows \ Bidders /\ \A x \in Rows \ {q} : bid'[x] = bid[x]
        /\ bid'[q].status = "finished"
        /\ \A r \in Requests \ {q} : req'[r] = req[r]
    BY <1>3, ConstantsAssumption DEF Succeed, FinishBid, Rows, LedgerOK, BidType, TypeInv, TypeOK
  <2>2. Early'
    <3>1. NoRefund'
      BY <2>1 DEF NoRefund, Rows
    <3>2. NoneAbandoned'
      BY <2>1 DEF NoneAbandoned, Abandoned, Rows, Early
    <3> QED BY <3>1, <3>2 DEF Early
  <2>3. PricingInv' /\ Ladder'
    BY <2>2, PricingStep, LadderStep DEF LadderInv
  <2>4. PICK v \in Bidders : Leads(v)'
    BY <2>1, <2>3 DEF Ladder, HasLeader
  <2>5. Lead' = finished'[v]
    <3>1. (PricingInv => LeadKnown)'
      BY LeadIs, PTL
    <3> QED BY <2>3, <2>4, <3>1 DEF LeadKnown
  <2>6. /\ finished'[v] \in Int /\ finished'[v] > 0
        /\ \A c \in Bidders : finished'[c] \in Int /\ finished'[c] <= finished'[v]
    BY <2>4 DEF Leads, TypeInv, TypeOK
  <2>7. CASE \E x \in Rows : bid[x].status = "finished"
    <3>1. PICK w \in Bidders : Leads(w)
      BY <2>7 DEF Ladder, HasLeader
    <3>2. Lead = finished[w]
      BY <3>1, LeadIs DEF LeadKnown
    <3>3. finished'[w] >= finished[w]
      <4>1. CASE LadderStays
        BY <4>1, LadderTypes DEF LadderStays
      <4>2. ASSUME NEW p \in Requests, NEW d \in Bidders, ToppedUp(p, d)
            PROVE  finished'[w] >= finished[w]
        <5>1. CASE w # d
          BY <4>2, <5>1, LadderTypes DEF ToppedUp
        <5>2. CASE w = d
          <6>1. ~(Succeed(p) /\ req[p].kind = "withdraw")
            BY <3>1, <4>2, <5>2 DEF ToppedUp, Leads, Leaving, Asks, Succeed
          <6> QED BY <4>2, <5>2, <6>1, LadderTypes DEF ToppedUp
        <5> QED BY <5>1, <5>2
      <4> QED BY <2>2, <4>1, <4>2, LadderMoves DEF Smooth
    <3> QED BY <2>5, <2>6, <3>2, <3>3, LadderTypes
  <2>8. CASE \A x \in Rows : bid[x].status # "finished"
    <3>1. Lead = 0
      BY <2>8 DEF Lead, Bidding
    <3> QED BY <2>5, <2>6, <3>1
  <2> QED BY <2>7, <2>8
<1> QED BY <1>2, <1>3

(* The money behind the leading bid never shrinks while bids are accepted, *)
(* when bidders wait for their answers and the market's transfers succeed: *)
(* checkIfUserIsWinner lets nobody go who leads, and what it read in its   *)
(* snapshot is still so when the withdrawal succeeds.                      *)
THEOREM LeadGrows ==
  ASSUME Smooth PROVE Spec => LeadNeverDrops
<1>1. Init => PricingInv /\ OfferInv /\ LadderInv
  BY PricingInit, LadderInit
<1>2. PricingInv /\ OfferInv /\ LadderInv /\ [Next]_vars => (PricingInv /\ OfferInv /\ LadderInv)'
  BY PricingStep, OfferStep, LadderStep DEF Smooth
<1>3. PricingInv /\ OfferInv /\ LadderInv /\ [Next]_vars => (Accepting /\ NoneAbandoned => Lead' >= Lead)
  BY LeadStep
<1> QED BY <1>1, <1>2, <1>3, PTL DEF Spec, LeadNeverDrops

============================================================================
