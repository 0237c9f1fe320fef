--------------------------- MODULE MarketContract ---------------------------
(***************************************************************************)
(* MarketPlace.sol: the contract that holds the tokens offered at a fixed  *)
(* price and an account of the KSM that its users deposited on Kusama.  A  *)
(* call is one step: it succeeds as a whole or is reverted as a whole.     *)
(*                                                                         *)
(* Every function reads orders[asks[_idCollection][_idNFT]], so the model  *)
(* keeps that order for each token; a token that was never offered has     *)
(* order 0, which the constructor pushes.  Tokens move outside of the      *)
(* contract too, and to it without an offer; the chain's coin moves only   *)
(* by buy.  Users are accounts of people: they accept every coin.          *)
(***************************************************************************)
EXTENDS Integers, FiniteSets, FiniteSetsExt

CONSTANTS
  Users, Tokens,
  Prices,        \* prices an ask may have
  Amounts,       \* amounts the escrow may deposit or withdraw
  MaxKSM,        \* bound on the sum of all balances
  Coins,         \* what each user has of the chain's own coin at first
  Contract,      \* the contract itself, as the owner of a token
  Nobody         \* address(0)

ASSUME ContractAssumption ==
  /\ {Contract, Nobody} \cap Users = {}
  /\ Contract # Nobody /\ IsFiniteSet(Users)
  /\ Prices \subseteq Nat \ {0} /\ Amounts \subseteq Nat
  /\ MaxKSM \in Nat /\ Coins \in Nat

VARIABLES
  order,         \* of each token: its seller, its price, flagActive # 0
  nft,           \* the owner of each token
  balanceKSM,    \* of each user
  coin           \* of each user, the chain's own

contractVars == <<order, nft, balanceKSM, coin>>

NoOrder == [owner |-> Nobody, price |-> 0, active |-> FALSE]

ContractInit ==
  /\ order = [t \in Tokens |-> NoOrder]
  /\ nft \in [Tokens -> Users]
  /\ balanceKSM = [u \in Users |-> 0]
  /\ coin = [u \in Users |-> Coins]

-----------------------------------------------------------------------------
(* transferFrom of the collection: reverts unless the owner is the sender. *)
TransferFrom(from, to, t) == nft[t] = from /\ nft' = [nft EXCEPT ![t] = to]

AddAsk(u, t, price) ==
  /\ order' = [order EXCEPT ![t] = [owner |-> u, price |-> price, active |-> TRUE]]
  /\ TransferFrom(u, Contract, t)
  /\ UNCHANGED <<balanceKSM, coin>>

\* Mutant: a closed ask may be edited.
EditClosed(u, t, price, active) ==
  /\ order[t].owner = u
  /\ order' = [order EXCEPT ![t].active = active]
  /\ UNCHANGED <<nft, balanceKSM, coin>>

\* A price of 0 leaves the price as it is.
EditAsk(u, t, price, active) ==
  /\ order[t].owner = u /\ order[t].active
  /\ order' = [order EXCEPT ![t].price = IF price > 0 THEN price ELSE @,
                            ![t].active = active]
  /\ UNCHANGED <<nft, balanceKSM, coin>>

CloseOrder(t) == order' = [order EXCEPT ![t].active = FALSE]

CancelAsk(u, t) ==
  /\ order[t].owner = u /\ order[t].active
  /\ CloseOrder(t)
  /\ TransferFrom(Contract, u, t)
  /\ UNCHANGED <<balanceKSM, coin>>

Credit(balance, u, amount) == [balance EXCEPT ![u] = @ + amount]

\* Mutant: both balances are computed from the balances before the sale.
MoveFromOldBalances(balance, from, to, amount) ==
  [u \in Users |-> IF u = to THEN balance[u] + amount
                   ELSE IF u = from THEN balance[u] - amount ELSE balance[u]]

\* The buyer is debited first and the seller credited in what that leaves; order 0
\* costs nothing, and its seller has no account here.
Move(balance, from, to, amount) ==
  LET debited == Credit(balance, from, -amount)
  IN IF to \in Users THEN Credit(debited, to, amount) ELSE debited

\* It does not look at the flag; the contract can only send a token it has, and
\* may send it to itself.
BuyKSM(buyer, t, receiver) ==
  /\ TransferFrom(Contract, receiver, t)
  /\ balanceKSM[buyer] >= order[t].price
  /\ balanceKSM' = Move(balanceKSM, buyer, order[t].owner, order[t].price)
  /\ CloseOrder(t)
  /\ UNCHANGED coin

\* Mutant: the order stays open.
BuyWithoutClosing(buyer, t) ==
  TransferFrom(Contract, buyer, t) /\ UNCHANGED <<order, balanceKSM, coin>>

\* Paid in the chain's own coin, straight to the seller.
Buy(buyer, t) ==
  /\ coin[buyer] >= order[t].price
  /\ CloseOrder(t)
  /\ TransferFrom(Contract, buyer, t)
  /\ coin' = Move(coin, buyer, order[t].owner, order[t].price)
  /\ UNCHANGED balanceKSM

\* Called by the escrow only (onlyEscrow).
DepositKSM(u, amount) ==
  /\ balanceKSM' = Credit(balanceKSM, u, amount)
  /\ UNCHANGED <<order, nft, coin>>

WithdrawKSM(u, amount) ==
  /\ balanceKSM[u] >= amount
  /\ balanceKSM' = Credit(balanceKSM, u, -amount)
  /\ UNCHANGED <<order, nft, coin>>

WithdrawAllKSM(u) ==
  /\ balanceKSM' = [balanceKSM EXCEPT ![u] = 0]
  /\ UNCHANGED <<order, nft, coin>>

\* A transfer of the token's owner to a user or to the contract itself, which is not
\* told of it.
Transfer(u, t, v) ==
  /\ TransferFrom(u, v, t)
  /\ UNCHANGED <<order, balanceKSM, coin>>

-----------------------------------------------------------------------------
TotalKSM == MapThenSumSet(LAMBDA u : balanceKSM[u], Users)

UserCall(u, t) ==
  \/ \E p \in Prices : AddAsk(u, t, p)
  \/ \E p \in Prices \cup {0}, active \in BOOLEAN : EditAsk(u, t, p, active)
  \/ CancelAsk(u, t)
  \/ Buy(u, t)
  \/ \E v \in Users \cup {Contract} : BuyKSM(u, t, v) \/ Transfer(u, t, v)

EscrowCall(u) ==
  \/ \E a \in Amounts : \/ TotalKSM + a <= MaxKSM /\ DepositKSM(u, a)
                        \/ WithdrawKSM(u, a)
  \/ WithdrawAllKSM(u)

ContractNext ==
  \/ \E u \in Users, t \in Tokens : UserCall(u, t)
  \/ \E u \in Users : EscrowCall(u)

ContractSpec == ContractInit /\ [][ContractNext]_contractVars

-----------------------------------------------------------------------------
OrderType == [owner : Users \cup {Nobody}, price : Nat, active : BOOLEAN]

\* Every variable has its type; no balance is negative.
ContractTypeOK ==
  /\ order \in [Tokens -> OrderType]
  /\ nft \in [Tokens -> Users \cup {Contract}]
  /\ balanceKSM \in [Users -> Nat]
  /\ coin \in [Users -> Nat]

(* A token that is on offer is in the contract, whichever way an earlier   *)
(* offer of it ended: cancelAsk, buyKSM, buy or editAsk.                   *)
OfferedIsHeld == \A t \in Tokens : order[t].active => nft[t] = Contract

(* A closed offer stays closed until its token is offered again: nothing   *)
(* but addAsk, by the token's owner, makes an order active.                *)
OnlyOwnerReopens ==
  [][\A t \in Tokens : ~order[t].active /\ order'[t].active =>
       order'[t].owner = nft[t]]_contractVars

Promise == INSTANCE Exchange WITH offer <- order, holder <- nft, funds <- balanceKSM,
                                  coins <- coin, Market <- Contract, NoOffer <- NoOrder

(* The contract keeps the promises of an exchange: though buyKSM and buy   *)
(* look at neither the flag nor the seller and tokens may come without an  *)
(* offer, a token leaves to the one who offered it last, or to a buyer who *)
(* pays this one the price of that offer, exactly and once; a sale neither *)
(* makes nor destroys money, to oneself included; a closed offer keeps its *)
(* terms.                                                                  *)
ImplementsExchange == Promise!ExchangeSpec
=============================================================================
