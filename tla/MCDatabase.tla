----------------------------- MODULE MCDatabase -----------------------------
\* A small collection and the queries of its visitors.
EXTENDS Database

Row1(key, type, locale, items) == [key |-> key, type |-> type, locale |-> locale, items |-> items]
Name == Row1("collectionName", "String", NoLocale, <<"Eyes of the world">>)
Image == Row1("image", "ImageURL", NoLocale, <<"eyes.png">>)

\* The attributes differ in their number of items, agree, have an item twice, and
\* one of their items is in the other attribute of another token.
MCDescribed ==
  <<{Name, Image, Row1("Eyes", "Enum", "en", <<"blue">>), Row1("Hat", "Enum", "en", <<"red", "tall">>)},
    {Name, Row1("Eyes", "Enum", "en", <<"blue">>), Row1("Hat", "Enum", "en", <<"red">>)},
    {Name, Row1("Eyes", "Enum", "en", <<"blue", "blue", "red">>)}>>

Fixed(token, price, seller) == [token |-> token, price |-> price, seller |-> seller, auction |-> FALSE]
Auctioned(token, price, seller) == [Fixed(token, price, seller) EXCEPT !.auction = TRUE]

MCListed == <<Fixed(1, 2, "alice"), Auctioned(2, 1, "alice"), Fixed(3, 2, "bob")>>
MCListings == {Auctioned(1, 1, "bob"), Fixed(2, 3, "alice"), Fixed(3, 1, "alice")}

AllOffers == [ByAttribute("") EXCEPT !.attributes = {}]
MCOfferFilters ==
  {AllOffers,
   [AllOffers EXCEPT !.bidder = "bob", !.auction = "true"],
   [AllOffers EXCEPT !.seller = "alice", !.prices = 2..1000, !.text = "blue", !.locale = "en"],
   [AllOffers EXCEPT !.attributes = {"blue", "red"}, !.auction = "false", !.numbers = {2, 3}]}

AllTrades == [collection |-> TRUE, tokens |-> {}, account |-> Anyone, text |-> NoText,
              number |-> 0, attributes |-> {}]
MCTradeFilters == {AllTrades, [AllTrades EXCEPT !.account = "alice", !.text = "2", !.number = 2]}

MCSorts == {<<>>, <<[by |-> "price", desc |-> FALSE], [by |-> "token", desc |-> TRUE]>>}
=============================================================================
