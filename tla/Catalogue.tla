----------------------------- MODULE Catalogue -----------------------------
(***************************************************************************)
(* What the market shows: the offers with their filters, sorting and pages,*)
(* the attributes they can be filtered by, and the trades.                 *)
(*                                                                         *)
(* The tables are written by the other parts of the market; here by one    *)
(* action per kind of write (modules Auction, Escrow and Listing have them *)
(* in detail).  A client walks through the pages of one query meanwhile:   *)
(* each page is a statement of its own, and so is the count of the items,  *)
(* which tells the client whether there are more pages.                    *)
(*                                                                         *)
(* One collection.  An offer is named after its place in the table, and a  *)
(* block after its number, which orders like the time of the block.        *)
(***************************************************************************)
EXTENDS Naturals, FiniteSets, FiniteSetsExt, Sequences, SequencesExt

CONSTANTS
  Described,    \* token |-> the rows that search_index gets for it, see SearchRow
  Accounts,     \* sellers, bidders and buyers
  Buyers,       \* those of them who bid and buy
  Listings,     \* what may be offered, see Listing
  Listed,       \* what is on offer at the beginning, one in each block
  OfferFilters, \* see OfferFilter
  TradeFilters, \* see TradeFilter
  Sorts,        \* sequences of [by, desc]
  PageSize,
  MaxOffers,    \* bound: rows of contract_ask
  MaxWrites     \* bound: writes of the tables

Tokens == DOMAIN Described
AnyPrice == 0..1000
Anyone == "anyone"
NoText == "no text"

(* Enum rows are the only ones with a locale: that of the translation read *)
(* first, with the items of all of them (reduceAcc).                       *)
SearchRow == [key : STRING, type : {"Enum", "String", "ImageURL", "Prefix", "Number"},
              locale : STRING, items : Seq(STRING)]
NoLocale == "no locale"

OfferFilter ==
  [collection : BOOLEAN, prices : SUBSET AnyPrice, seller : Accounts \cup {Anyone},
   text : STRING, locale : STRING, numbers : SUBSET Nat, bidder : Accounts \cup {Anyone},
   auction : {"null", "true", "false"}, attributes : SUBSET STRING]

\* number: what the text is as a number, or 0.
TradeFilter ==
  [collection : BOOLEAN, tokens : SUBSET Tokens, account : Accounts \cup {Anyone},
   text : STRING, number : Nat, attributes : SUBSET STRING]

Listing == [token : Tokens, price : Nat, seller : Accounts, auction : BOOLEAN]

ASSUME CatalogueAssumption ==
  /\ Tokens \subseteq Nat \ {0} /\ \A t \in Tokens : Described[t] \subseteq SearchRow
  /\ OfferFilters \subseteq OfferFilter /\ TradeFilters \subseteq TradeFilter
  /\ Listings \subseteq Listing
  /\ {Anyone} \cap Accounts = {}
  /\ PageSize \in Nat \ {0} /\ MaxOffers \in Nat /\ MaxWrites \in Nat

VARIABLES
  offers,  \* contract_ask, with the auction and its positive bids
  trades,  \* market_trade
  copies,  \* token |-> how many copies of its rows search_index holds
  block,   \* the block that is being processed
  writes,  \* how many writes there were
  walk,    \* the client
  during   \* history: what happened to the offers or trades it asks for, since its first page

tables == <<offers, trades, copies, block>>
catalogueVars == <<tables, writes, walk, during>>

-----------------------------------------------------------------------------
(* The joins.  Null stands for a left join that finds no row.              *)

Null == <<>>
OrNull(S) == IF S = {} THEN {Null} ELSE S

\* search_filter: an element for each item but those of images, of each copy.
SearchFilter(t) ==
  OrNull(UNION {{<<c, row, i>> : i \in DOMAIN row.items} :
                  c \in 1..copies[t], row \in {d \in Described[t] : d.type # "ImageURL"}})
KeyOf(s) == s[2].key
LocaleOf(s) == s[2].locale
ItemOf(s) == s[2].items[s[3]]

\* Places in the list of the auction's positive bids.
Bids(offer) == OrNull({<<i>> : i \in DOMAIN offer.bidders})

InfoKeys == {"collectionCover", "description", "collectionName"}

(* The items of the token's attributes, with the collection's description  *)
(* and name left out ...                                                   *)
Attributes(t) == {d \in Described[t] : d.type \in {"Enum", "String"} /\ d.key \notin InfoKeys}
\* ... as total_items has them, counted when the rows were saved.
TotalItems(t) == MapThenSumSet(LAMBDA d : Len(d.items), Attributes(t))
(* ... and as the filter counts them: DISTINCT merges rows of equal length.*)
NumberOfAttributes(t) == SumSet({Len(d.items) : d \in Attributes(t)})

EnumItems(t) ==
  IF copies[t] = 0 THEN {}
  ELSE UNION {ToSet(d.items) : d \in {e \in Described[t] : e.type = "Enum"}}

-----------------------------------------------------------------------------
(* OffersService.filter.                                                   *)

\* Offers removed by the administrator are shown to those who ask for a seller.
Shown(f) == IF f.seller = Anyone THEN {"active"} ELSE {"active", "removed_by_admin"}

\* filterBySearchText, on one row of the join.
FoundIn(s, f) ==
  /\ f.text # NoText => s # Null /\ ItemOf(s) = f.text
  /\ f.locale # NoLocale => s = Null \/ LocaleOf(s) \in {NoLocale, f.locale}

BidBy(offer, b, f) == f.bidder # Anyone => b # Null /\ offer.bidders[b[1]] = f.bidder

Offered(o, f) ==
  LET offer == offers[o] IN
  /\ offer.status \in Shown(f)
  /\ offer.price \in f.prices
  /\ f.seller # Anyone => offer.seller = f.seller
  /\ f.auction # "null" => offer.auction = (f.auction = "true")
  /\ \E s \in SearchFilter(offer.token), b \in Bids(offer) : FoundIn(s, f) /\ BidBy(offer, b, f)
  /\ f.numbers # {} => /\ offer.status = "active"
                       /\ copies[offer.token] > 0 /\ Attributes(offer.token) # {}
                       /\ NumberOfAttributes(offer.token) \in f.numbers
  /\ f.attributes \subseteq EnumItems(offer.token)

\* filterByTraits, of offers and of trades: 400 without a collection.
BadRequest(f) == f.attributes # {} /\ ~f.collection

-----------------------------------------------------------------------------
(* TradesService.filter...: on one row of the join.  The condition on the  *)
(* token that a text is the number of is added with OR, which binds weaker *)
(* than the AND before and after it.                                       *)

TradedIn(s, trade, f) ==
  LET party == f.account # Anyone => f.account \in {trade.seller, trade.buyer}
      token == f.tokens # {} => trade.token \in f.tokens
      text == f.text # NoText => /\ s # Null /\ ItemOf(s) = f.text
                                 /\ KeyOf(s) \notin {"description", "collectionCover", "image"}
      traits == f.attributes # {} => s # Null /\ f.attributes \subseteq ToSet(s[2].items)
  IN IF f.text # NoText /\ f.number # 0
     THEN (token /\ party /\ text) \/ (trade.token = f.number /\ traits)
     ELSE token /\ party /\ text /\ traits

Traded(n, f) == \E s \in SearchFilter(trades[n].token) : TradedIn(s, trades[n], f)

-----------------------------------------------------------------------------
(* Sorting.                                                                *)

Desc(by) == [by |-> by, desc |-> TRUE]

\* applyFlatSort: anything else than price, token and date is the block.
OfferOrder(sort) == IF sort = <<>> THEN <<Desc("block")>> ELSE sort

\* applySort: the date of the trade comes last, other columns are left out.
TradeOrder(sort) ==
  LET known == SelectSeq(sort, LAMBDA s : s.by \in {"price", "token", "date"})
  IN IF \E i \in DOMAIN sort : sort[i].by = "date" THEN known ELSE Append(known, Desc("date"))

Field(row, by) == CASE by = "price" -> row.price
                    [] by = "token" -> row.token
                    [] OTHER -> row.block

Before(x, y, order) ==
  \E i \in DOMAIN order :
    /\ \A j \in 1..(i - 1) : Field(x, order[j].by) = Field(y, order[j].by)
    /\ IF order[i].desc THEN Field(x, order[i].by) > Field(y, order[i].by)
                        ELSE Field(x, order[i].by) < Field(y, order[i].by)

RowOf(w, o) == IF w.what = "offers" THEN offers[o] ELSE trades[o]
OrderOf(w) == IF w.what = "offers" THEN OfferOrder(w.sort) ELSE TradeOrder(w.sort)

\* What the query of the walk finds.
Matching(w) == IF w.what = "offers" THEN {o \in DOMAIN offers : Offered(o, w.filter)}
               ELSE {n \in DOMAIN trades : Traded(n, w.filter)}

Precedes(w, x, y) == Before(RowOf(w, x), RowOf(w, y), OrderOf(w))
Ties(w, x) == {y \in Matching(w) : ~Precedes(w, x, y) /\ ~Precedes(w, y, x)}

-----------------------------------------------------------------------------
(* Pages.                                                                  *)

\* Mutant: pages are counted from 1, and so is their offset.
OffsetOfNext(page) == page * PageSize

Offset(page) == (page - 1) * PageSize

(* The sets that a page may consist of: any order of the rows that agrees  *)
(* with the sort, from offset on, PageSize rows.  DISTINCT leaves one row  *)
(* of the join per offer.                                                  *)
Pages(w) ==
  LET found == Matching(w)
      first(x) == Cardinality({y \in found : Precedes(w, y, x)})
      Among(x) == LET from == Max({first(x), Offset(w.page)})
                      to == Min({first(x) + Cardinality(Ties(w, x)), Offset(w.page) + PageSize})
                  IN IF from < to THEN to - from ELSE 0
  IN {P \in SUBSET found : \A x \in found : Cardinality(P \cap Ties(w, x)) = Among(x)}

NoWalk == [what |-> "offers", filter |-> "none", sort |-> <<>>, page |-> 0, pc |-> "idle",
           seen |-> {}, again |-> {}]

\* No writes that would matter to the walk: what stayed, and what else happened.
StartOf(w) == [stayed |-> Matching(w), left |-> FALSE, joined |-> FALSE, moved |-> FALSE,
               tied |-> \E x \in Matching(w) : Ties(w, x) # {x}]

Walking == walk.pc \in {"page", "count"}

\* The client: GET /offers, /trades or /trades/:accountId, from the first page.
Start ==
  /\ walk.pc = "idle"
  /\ \E sort \in Sorts :
       walk' \in UNION
         {{[NoWalk EXCEPT !.what = "offers", !.filter = f, !.sort = sort, !.page = 1, !.pc = "page"] :
             f \in {g \in OfferFilters : ~BadRequest(g)}},
          {[NoWalk EXCEPT !.what = "trades", !.filter = f, !.sort = sort, !.page = 1, !.pc = "page"] :
             f \in {g \in TradeFilters : ~BadRequest(g)}}}
  /\ during' = StartOf(walk')
  /\ UNCHANGED <<tables, writes>>

\* The statement for the rows of the page.
GetPage ==
  /\ walk.pc = "page"
  /\ \E P \in Pages(walk) :
       walk' = [walk EXCEPT !.pc = "count", !.seen = @ \cup P, !.again = @ \cup (P \cap walk.seen)]
  /\ UNCHANGED <<tables, writes, during>>

\* The one for itemsCount; the client goes on while there are more.
GetCount ==
  /\ walk.pc = "count"
  /\ walk' = IF Cardinality(Matching(walk)) > walk.page * PageSize
             THEN [walk EXCEPT !.page = @ + 1, !.pc = "page"]
             ELSE [walk EXCEPT !.pc = "done"]
  /\ UNCHANGED <<tables, writes, during>>

-----------------------------------------------------------------------------
(* Attributes to filter by.                                                *)

\* Mutant: the view forgets the status of the offers.
EveryOfferSearch ==
  UNION {{<<o, s, b>> : s \in SearchFilter(offers[o].token), b \in Bids(offers[o])} : o \in DOMAIN offers}

(* The view v_offers_search: an active offer, an item of its token and a   *)
(* bid of its auction (v_auction_bids has a row for each of them).         *)
OffersSearch ==
  UNION {{<<o, s, b>> : s \in SearchFilter(offers[o].token), b \in Bids(offers[o])} :
           o \in {p \in DOMAIN offers : offers[p].status = "active"}}

\* OffersFilterService.attributes: how often the view has the item of the key.
AttributeCount(key, item) ==
  Cardinality({v \in OffersSearch :
    v[2] # Null /\ KeyOf(v[2]) = key /\ ItemOf(v[2]) = item /\ LocaleOf(v[2]) # NoLocale})

\* attributesCount: how many offers of the view have this number of items.
AmountOf(number) ==
  Cardinality({v[1] : v \in {u \in OffersSearch :
    u[2] # Null /\ TotalItems(offers[u[1]].token) = number}})

-----------------------------------------------------------------------------
(* The other parts of the market.                                          *)

Live(t) == \E o \in DOMAIN offers :
             offers[o].token = t /\ offers[o].status \in {"active", "removed_by_admin"}

(* A write, and what it does to the walk: rows leave or join what its query*)
(* finds, or change their place.                                           *)
Write ==
  /\ writes < MaxWrites
  /\ writes' = writes + 1
  /\ UNCHANGED walk
  /\ during' =
       IF ~Walking THEN during
       ELSE LET kept == Matching(walk) \cap Matching(walk)' IN
            [stayed |-> during.stayed \cap Matching(walk)',
             left |-> during.left \/ Matching(walk) # kept,
             joined |-> during.joined \/ Matching(walk)' # kept,
             moved |-> during.moved \/ \E x, y \in kept : Precedes(walk, x, y) # Precedes(walk, x, y)',
             tied |-> during.tied \/ \E x \in Matching(walk)' : Ties(walk, x)' # {x}]

Offer(l, at) == [token |-> l.token, price |-> l.price, seller |-> l.seller, block |-> at,
                 status |-> "active", auction |-> l.auction, bidders |-> <<>>]

\* An offer is registered and its token indexed, unless it was already; or not (an error).
List(l) ==
  /\ Len(offers) < MaxOffers
  /\ ~Live(l.token)
  /\ offers' = Append(offers, Offer(l, block))
  /\ \/ copies' = [copies EXCEPT ![l.token] = Max({@, 1})]
     \/ copies' = copies
  /\ UNCHANGED <<trades, block>>

\* A bid is placed.
Bid(o, bidder) ==
  /\ offers[o].status = "active" /\ offers[o].auction
  /\ offers' = [offers EXCEPT ![o].price = @ + 1, ![o].bidders = Append(@, bidder)]
  /\ UNCHANGED <<trades, copies, block>>

\* It is cancelled, or removed by massFixPriceCancel.
Take(o) ==
  /\ offers[o].status = "active"
  /\ \E status \in {"cancelled", "removed_by_admin"} :
       /\ status = "removed_by_admin" => ~offers[o].auction
       /\ offers' = [offers EXCEPT ![o].status = status]
  /\ UNCHANGED <<trades, copies, block>>

Sell(o, buyer) ==
  /\ offers[o].status = "active"
  /\ offers' = [offers EXCEPT ![o].status = "bought"]
  /\ trades' = Append(trades, [token |-> offers[o].token, price |-> offers[o].price,
                               seller |-> offers[o].seller, buyer |-> buyer, block |-> block])
  /\ UNCHANGED <<copies, block>>

\* Two processes index a token at once, or it is being indexed anew.
Reindex(t) ==
  /\ copies' \in {[copies EXCEPT ![t] = n] : n \in {0, 1, 2} \ {copies[t]}}
  /\ UNCHANGED <<offers, trades, block>>

NextBlock == block' = block + 1 /\ UNCHANGED <<offers, trades, copies>>

-----------------------------------------------------------------------------
CatalogueInit ==
  /\ offers = [i \in DOMAIN Listed |-> Offer(Listed[i], i)]
  /\ trades = <<>>
  /\ copies = [t \in Tokens |-> IF Live(t) THEN 1 ELSE 0]
  /\ block = Max({1, Len(Listed)}) /\ writes = 0
  /\ walk = NoWalk
  /\ during = [stayed |-> {}, left |-> FALSE, joined |-> FALSE, moved |-> FALSE, tied |-> FALSE]

WriteTables ==
  \/ \E l \in Listings : List(l)
  \/ \E o \in DOMAIN offers :
       \/ Take(o)
       \/ \E a \in Buyers : Bid(o, a) \/ Sell(o, a)
  \/ \E t \in Tokens : Reindex(t)
  \/ NextBlock

CatalogueNext == Start \/ GetPage \/ GetCount \/ (WriteTables /\ Write)

-----------------------------------------------------------------------------
(* Properties.                                                             *)

(* A client that reads all the pages has seen everything that was there all*)
(* the while, and nothing twice, though each page is a query of its own and*)
(* the count yet another.  What is skipped is the fault of a row that left *)
(* or moved up; what is repeated, of one that joined or moved down; or the *)
(* sort leaves ties, which each statement may break in another way.        *)
WalkIsComplete ==
  LET unsteady == during.moved \/ during.tied IN
  /\ walk.pc = "done" /\ ~unsteady /\ ~during.left => during.stayed \subseteq walk.seen
  /\ ~unsteady /\ ~during.joined => walk.again = {}

Enums == UNION {{d \in Described[t] : d.type = "Enum"} : t \in Tokens}
ByAttribute(item) == [collection |-> TRUE, prices |-> AnyPrice, seller |-> Anyone, text |-> NoText,
                      locale |-> NoLocale, numbers |-> {}, bidder |-> Anyone, auction |-> "null",
                      attributes |-> {item}]
ByNumber(n) == [ByAttribute("") EXCEPT !.attributes = {}, !.numbers = {n}]
OffersBy(f) == Cardinality({o \in DOMAIN offers : Offered(o, f)})

\* The item is once among the token's, whatever the key and the locale.
Once(item, t) ==
  Cardinality({<<d, i>> \in Enums \X (1..10) :
    d \in Described[t] /\ i \in DOMAIN d.items /\ d.items[i] = item}) <= 1

\* The token, if it has the item, has it under this key.
UnderNoOtherKey(key, item, t) ==
  \A d \in Described[t] \cap Enums : item \in ToSet(d.items) => d.key = key

(* The numbers shown beside an attribute and beside a number of attributes *)
(* are those of the offers one gets when one clicks on it.  The exceptions *)
(* are, for an attribute: an auction with several bids, a token indexed    *)
(* twice, an item that a token has in two languages or keys, or that       *)
(* another token on offer has under another key (the count is by key and   *)
(* item, the filter by item alone); for a number: zero, and tokens two of  *)
(* whose attributes have equally many items.  (The walk makes no difference*)
(* to them.)                                                               *)
CountsAgree ==
  walk.pc = "idle" =>
  LET active == {o \in DOMAIN offers : offers[o].status = "active"}
      token(o) == offers[o].token
  IN
  /\ \A d \in Enums : \A i \in DOMAIN d.items :
       (\A o \in active : /\ Len(offers[o].bidders) <= 1
                          /\ copies[token(o)] <= 1
                          /\ Once(d.items[i], token(o))
                          /\ UnderNoOtherKey(d.key, d.items[i], token(o)))
         => AttributeCount(d.key, d.items[i]) = OffersBy(ByAttribute(d.items[i]))
  /\ \A n \in 1..10 :
       (\A o \in active : \A d, e \in Attributes(token(o)) : Len(d.items) = Len(e.items) => d = e)
         => AmountOf(n) = OffersBy(ByNumber(n))
=============================================================================
