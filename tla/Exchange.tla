------------------------------ MODULE Exchange ------------------------------
(***************************************************************************)
(* What a marketplace at fixed prices promises to those who trust it with  *)
(* tokens and money.  Its owner offers a token by giving it to the         *)
(* marketplace; from there it goes back to the one who offered it last, or *)
(* to a buyer who pays this one its price, in one of two currencies.       *)
(* Terms change while the offer is open only.  Anyone may give the         *)
(* marketplace a token without an offer: whoever asks first gets it, at the*)
(* terms of the token's last offer.                                        *)
(***************************************************************************)
EXTENDS Naturals

CONSTANTS
  Users, Tokens,
  Market,  \* the marketplace, as the holder of a token
  NoOffer  \* of a token that was never offered

VARIABLES
  offer,   \* of each token: its owner, its price, whether it is active
  holder,  \* of each token
  funds,   \* of each user, on its account at the marketplace
  coins    \* of each user, elsewhere

exchangeVars == <<offer, holder, funds, coins>>

ExchangeInit ==
  /\ offer = [t \in Tokens |-> NoOffer]
  /\ holder \in [Tokens -> Users]
  /\ funds = [u \in Users |-> 0]
  /\ coins \in [Users -> Nat]

OnlyChanges(t) ==
  /\ DOMAIN offer' = Tokens
  /\ \A s \in Tokens \ {t} : offer'[s] = offer[s]

Goes(t, from, to) == holder[t] = from /\ holder' = [holder EXCEPT ![t] = to]

Close(t) == offer' = [offer EXCEPT ![t].active = FALSE]

Offer(u, t) ==
  /\ Goes(t, u, Market)
  /\ offer'[t].owner = u /\ offer'[t].active
  /\ OnlyChanges(t)
  /\ UNCHANGED <<funds, coins>>

Change(t) ==
  /\ offer[t].active
  /\ offer'[t].owner = offer[t].owner
  /\ OnlyChanges(t)
  /\ UNCHANGED <<holder, funds, coins>>

\* To nobody else than the one who offered it.
TakeOut(t) ==
  /\ offer[t].active
  /\ Goes(t, Market, offer[t].owner)
  /\ Close(t)
  /\ UNCHANGED <<funds, coins>>

\* Who buys from itself pays nothing.
Paid(account, buyer, seller, price) ==
  [u \in Users |-> IF buyer = seller THEN account[u]
                   ELSE IF u = buyer THEN account[u] - price
                   ELSE IF u = seller THEN account[u] + price
                   ELSE account[u]]

\* The buyer has it sent wherever it likes.
Sale(buyer, t, receiver) ==
  LET seller == offer[t].owner
      price == offer[t].price
  IN /\ Goes(t, Market, receiver)
     /\ Close(t)
     /\ seller \in Users \/ price = 0
     /\ \/ /\ funds[buyer] >= price
           /\ funds' = Paid(funds, buyer, seller, price)
           /\ UNCHANGED coins
        \/ /\ coins[buyer] >= price
           /\ coins' = Paid(coins, buyer, seller, price)
           /\ UNCHANGED funds

\* Between users, or to the marketplace without an offer.
Give(u, t, to) ==
  /\ Goes(t, u, to)
  /\ ~offer[t].active
  /\ UNCHANGED <<offer, funds, coins>>

Account(u) ==
  /\ UNCHANGED <<offer, holder, coins>>
  /\ DOMAIN funds' = Users
  /\ funds'[u] \in Nat
  /\ \A v \in Users \ {u} : funds'[v] = funds[v]

ExchangeNext ==
  \/ \E u \in Users, t \in Tokens :
       \/ Offer(u, t)
       \/ \E to \in Users \cup {Market} : Sale(u, t, to) \/ Give(u, t, to)
  \/ \E t \in Tokens : Change(t) \/ TakeOut(t)
  \/ \E u \in Users : Account(u)

ExchangeSpec == ExchangeInit /\ [][ExchangeNext]_exchangeVars
=============================================================================
