----------------------------- MODULE Migrations -----------------------------
(***************************************************************************)
(* The database schema and how an installation reaches it.                 *)
(*                                                                         *)
(* main.ts runs every pending migration before it listens, in ONE          *)
(* transaction (database/migrations.ts: transaction 'all'): either all of  *)
(* them are committed or none is and the process does not serve.           *)
(* TypeORM orders migrations by the last 13 digits of their name, not by   *)
(* their date, and takes as pending each one whose name is not in its      *)
(* table.  An installation that followed the releases has therefore run    *)
(* them in another order than a fresh one; `npm run migration:revert'      *)
(* undoes the one executed last.                                           *)
(*                                                                         *)
(* A schema is a set of objects <<kind, owner, name, on>>: tables, columns,*)
(* indexes, foreign keys, NOT NULL constraints, enum types and views, and  *)
(* the few kinds of row that a migration depends on.  `on' is the set of   *)
(* keys <<kind, owner, name>> the object cannot exist without.  A migration*)
(* is two sequences of steps, up and down.                                 *)
(***************************************************************************)
EXTENDS Naturals, Sequences, SequencesExt

VARIABLES
  db,        \* the objects of the database
  executed,  \* names of the migrations in TypeORM's table, in order of id
  serving,   \* the application listens
  refused    \* what failed last: <<>> or <<"up" | "down", migration>>

migrationVars == <<db, executed, serving, refused>>

-----------------------------------------------------------------------------
(* Objects.                                                                *)

TableKey(t) == <<"table", t, t>>
ColumnKey(t, c) == <<"column", t, c>>
ColumnKeys(t, cs) == {ColumnKey(t, c) : c \in cs}
TypeKey(n) == <<"type", n, n>>

Key(x) == SubSeq(x, 1, 3)
Keys(S) == {Key(x) : x \in S}

\* A column of a built-in type stays on its table, one of an enum type is
\* also on that type.
Column(t, c) == <<"column", t, c, {TableKey(t)}>>
Typed(t, c, type) == <<"column", t, c, {TableKey(t), TypeKey(type)}>>
Columns(t, cs) == {Column(t, c) : c \in cs}
Table(t, cs) == {<<"table", t, t, {}>>} \cup Columns(t, cs)
Index(t, n, cs) == <<"index", t, n, {TableKey(t)} \cup ColumnKeys(t, cs)>>
NotNull(t, c) == <<"notnull", t, c, {ColumnKey(t, c)}>>
ForeignKey(t, n, cs, to) == <<"key", t, n, {TableKey(to), TableKey(t)} \cup ColumnKeys(t, cs)>>
Type(n) == <<"type", n, n, {}>>
View(n, on) == <<"view", n, n, on>>
Row(t, n) == <<"row", t, n, {TableKey(t)}>>
RowKey(t, n) == <<"row", t, n>>

\* NUMERIC is the one built-in type a migration changes a column to.
Numeric == Type("numeric")

(* What DROP removes along with an object: a table its columns, indexes,   *)
(* keys and rows; a column the indexes and NOT NULL on it.                 *)
Dropped(objects, k) ==
  {x \in objects :
     \/ Key(x) = k
     \/ k[1] = "table" /\ x[2] = k[2]
     \/ k[1] = "column" /\ x[1] \in {"index", "notnull"} /\ k \in x[4]}

-----------------------------------------------------------------------------
(* Steps of a migration.                                                   *)

Nothing == [when |-> {}, unless |-> {}, needs |-> {}, drop |-> {}, cut |-> {}, make |-> {}]

Create(S) == [Nothing EXCEPT !.make = S]
Drop(K) == [Nothing EXCEPT !.drop = K]
Using(K) == [Nothing EXCEPT !.needs = K]
\* An object that takes the place of another one (rename, ALTER ... TYPE).
Change(K, S) == [Nothing EXCEPT !.cut = K, !.make = S]
FailIf(present, absent) ==
  [Nothing EXCEPT !.when = present, !.unless = absent, !.needs = {<<"never", "", "">>}]
If(K, step) == [step EXCEPT !.when = K]
IfNot(K, step) == [step EXCEPT !.unless = K]

(* One step.  `drop' takes owned objects along and is refused while others *)
(* still stand on them; `make' is refused for a name that exists or when   *)
(* what the object stands on is missing.                                   *)
Execute(state, step) ==
  LET objects == state.db
      present == Keys(objects)
      gone == UNION {Dropped(objects, k) : k \in step.drop}
      kept == {x \in objects \ gone : Key(x) \notin step.cut}
      result == kept \cup step.make
      names == Keys(result)
      lost == present \ names
  IN IF ~state.ok \/ ~ step.when \subseteq present \/ (step.unless # {} /\ step.unless \subseteq present)
     THEN state
     ELSE [ok |-> /\ (step.needs \cup step.drop \cup step.cut) \subseteq present
                  /\ \A x \in step.make : x[4] \subseteq names
                  /\ Keys(step.make) \cap Keys(kept) = {}
                  /\ lost # {} => \A x \in result : x[4] \cap lost = {},
           db |-> result]

Perform(objects, steps) == FoldLeft(Execute, [ok |-> TRUE, db |-> objects], steps)

-----------------------------------------------------------------------------
(* Entities: what the running code reads and writes.                       *)

AccountPairsColumns == {"substrate", "ethereum"}

AdminSessionColumns ==
  {"id", "address", "substrate_address", "access_token", "refresh_token", "created_at", "updated_at"}

AuctionBidsColumns ==
  {"id", "created_at", "updated_at", "price_step", "start_price", "status", "stop_at",
   "contract_ask_id", "bidder_address"}

BlockchainBlockColumns == {"block_number", "network", "created_at"}

CollectionColumns ==
  {"id", "owner", "mode", "decimal_points", "name", "description", "token_prefix", "mint_mode",
   "allowed_tokens", "status", "import_type", "created_at", "updated_at"}

ContractAskColumns ==
  {"id", "status", "collection_id", "token_id", "network", "price", "currency", "address_from",
   "address_to", "block_number_ask", "block_number_cancel", "block_number_buy",
   "created_at_ask", "updated_at"}

MarketTradeColumns ==
  {"id", "collection_id", "token_id", "network", "price", "currency", "address_seller",
   "address_buyer", "ask_created_at", "buy_created_at", "block_number_ask", "block_number_buy",
   "method", "origin_price", "commission"}

MoneyTransferColumns ==
  {"id", "currency", "type", "status", "amount", "network", "block_number", "created_at",
   "updated_at", "extra"}

NFTTransferColumns ==
  {"id", "collection_id", "token_id", "network", "address_from", "address_to", "block_number",
   "created_at", "updated_at"}

SearchIndexColumns ==
  {"id", "collection_id", "token_id", "network", "items", "is_trait", "locale", "key",
   "count_item", "total_items", "list_items", "type"}

TokensColumns == {"id", "collection_id", "token_id", "owner_token", "created_at", "updated_at"}

AuctionColumns ==
  {"id", "created_at", "updated_at", "price_step", "start_price", "status", "stop_at",
   "contract_ask_id"}

BidColumns ==
  {"id", "amount", "balance", "block_number", "auction_id", "bidder_address", "status",
   "created_at", "updated_at"}

\* The columns of tables that the view of the offers' filter is computed from.
OfferFiltersColumns ==
  ColumnKeys("contract_ask", ContractAskColumns \ {"collection_id", "token_id"})
    \cup ColumnKeys("contract_ask", {"collection_id", "token_id"})
    \cup ColumnKeys("search_index", SearchIndexColumns \ {"id"})

Entities ==
  ColumnKeys("account_pairs", AccountPairsColumns) \cup ColumnKeys("sessions", AdminSessionColumns)
    \cup ColumnKeys("blockchain_block", BlockchainBlockColumns)
    \cup ColumnKeys("collections", CollectionColumns)
    \cup ColumnKeys("contract_ask", ContractAskColumns)
    \cup ColumnKeys("market_trade", MarketTradeColumns)
    \cup ColumnKeys("money_transfer", MoneyTransferColumns)
    \cup ColumnKeys("nft_transfer", NFTTransferColumns)
    \cup ColumnKeys("search_index", SearchIndexColumns)
    \cup ColumnKeys("tokens", TokensColumns)
    \cup ColumnKeys("auctions", AuctionColumns) \cup ColumnKeys("bids", BidColumns)
    \cup {<<"view", v, v>> : v \in {"v_auction_bids", "v_offers_search"}}

-----------------------------------------------------------------------------
(* The schema of the installations before the contract (helpers/index.ts): *)
(* of its columns only those that MoveToEvm reads are kept.                *)

History == TableKey("__EFMigrationsHistory")
LatestOldInstallation == RowKey("__EFMigrationsHistory", "20210806043509_FixedTokensSearchIndexing")

BlockTables == Table("KusamaProcessedBlock", {"BlockNumber"}) \cup Table("UniqueProcessedBlock", {"BlockNumber"})

OfferTable ==
  Table("Offer", {"Id", "CreationDate", "CollectionId", "TokenId", "Price", "Seller", "QuoteId"})
    \cup {Index("Offer", n, {}) : n \in {"IX_Offer_OfferStatus_CollectionId_TokenId",
                                         "IX_Offer_CreationDate", "IX_Offer_Metadata"}}

NftTables ==
  Table("NftIncomingTransaction", {"OfferId", "UniqueProcessedBlockId"})
    \cup {Index("NftIncomingTransaction", n, {}) :
            n \in {"IX_NftIncomingTransaction_Status_LockTime", "IX_NftIncomingTransaction_OfferId",
                   "IX_NftIncomingTransaction_UniqueProcessedBlockId"}}
    \cup {ForeignKey("NftIncomingTransaction", "FK_Offer", {"OfferId"}, "Offer"),
          ForeignKey("NftIncomingTransaction", "FK_UniqueProcessedBlock", {"UniqueProcessedBlockId"},
                     "UniqueProcessedBlock")}
    \cup Table("NftOutgoingTransaction", {})
    \cup {Index("NftOutgoingTransaction", "IX_NftOutgoingTransaction_Status_LockTime", {})}

TradeTable ==
  Table("Trade", {"Id", "TradeDate", "Buyer", "OfferId"})
    \cup {Index("Trade", "IX_Trade_OfferId", {"OfferId"}),
          ForeignKey("Trade", "FK_Trade_Offer_OfferId", {"OfferId"}, "Offer")}

SearchTable ==
  Table("TokenTextSearch", {})
    \cup {Index("TokenTextSearch", "IX_TokenTextSearch_CollectionId_TokenId_Locale", {})}

QuoteTables ==
  Table("QuoteIncomingTransaction", {}) \cup Table("QuoteOutgoingTransaction", {})
    \cup {Index("QuoteIncomingTransaction", n, {}) :
            n \in {"IX_QuoteIncomingTransaction_AccountPublicKey",
                   "IX_QuoteIncomingTransaction_Status_LockTime"}}
    \cup {Index("QuoteOutgoingTransaction", "IX_QuoteOutgoingTransaction_Status", {})}

(* An installation of the .NET marketplace has these tables already: its   *)
(* last version is taken over, an older one refused.                       *)
CreateSchema ==
  << FailIf({History}, {LatestOldInstallation}),
     IfNot({History}, Create(BlockTables)), IfNot({History}, Create(OfferTable)),
     IfNot({History}, Create(NftTables)), IfNot({History}, Create(SearchTable)),
     IfNot({History}, Create(TradeTable)), IfNot({History}, Create(QuoteTables)),
     If({History}, Drop({History})) >>

DropTables(names) == [i \in DOMAIN names |-> Drop({TableKey(names[i])})]

DropSchema ==
  << Drop({<<"index", "QuoteOutgoingTransaction", "IX_QuoteOutgoingTransaction_Status">>}) >>
    \o DropTables(<<"QuoteOutgoingTransaction", "QuoteIncomingTransaction">>)
    \o << Drop({<<"key", "Trade", "FK_Trade_Offer_OfferId">>}) >>
    \o DropTables(<<"Trade", "TokenTextSearch", "NftOutgoingTransaction">>)
    \o << Drop({<<"key", "NftIncomingTransaction", "FK_UniqueProcessedBlock">>}),
          Drop({<<"key", "NftIncomingTransaction", "FK_Offer">>}) >>
    \o DropTables(<<"NftIncomingTransaction", "Offer", "UniqueProcessedBlock", "KusamaProcessedBlock">>)

-----------------------------------------------------------------------------
(* The migrations.                                                         *)

Initial == [name |-> "Initial", up |-> CreateSchema, down |-> DropSchema]

AccountPairs ==
  [name |-> "AccountPairs", up |-> << Create(Table("account_pairs", {"substrate", "ethereum"})) >>,
   down |-> DropTables(<<"account_pairs">>)]

BlockchainBlock ==
  [name |-> "BlockchainBlock",
   up |-> << Create(Table("blockchain_block", {"block_number", "network", "created_at"})) >>,
   down |-> DropTables(<<"blockchain_block">>)]

ContractAsk ==
  [name |-> "ContractAsk",
   up |-> << Create(Table("contract_ask",
                      {"id", "status", "collection_id", "token_id", "network", "price", "currency",
                       "address_from", "address_to", "block_number_ask", "block_number_cancel",
                       "block_number_buy"})
             \cup {Index("contract_ask", "IX_contract_ask_collection_id_token_id", {"collection_id", "token_id"}),
                   Index("contract_ask", "IX_contract_ask_status", {"status"})}) >>,
   down |-> << Drop({<<"index", "contract_ask", "IX_contract_ask_collection_id_token_id">>}),
               Drop({<<"index", "contract_ask", "IX_contract_ask_status">>}),
               Drop({TableKey("contract_ask")}) >>]

MarketTrade ==
  [name |-> "MarketTrade",
   up |-> << Create(Table("market_trade",
               {"id", "collection_id", "token_id", "network", "price", "currency", "address_seller",
                "address_buyer", "ask_created_at", "buy_created_at", "block_number_ask",
                "block_number_buy"})) >>,
   down |-> DropTables(<<"market_trade">>)]

MoneyTransfer ==
  [name |-> "MoneyTransfer",
   up |-> << Create(Table("money_transfer",
                      {"id", "currency", "type", "status", "amount", "network", "block_number",
                       "created_at", "updated_at", "extra"})
             \cup {Index("money_transfer", "IX_money_transfer_currency_type_status",
                         {"currency", "type", "status"})}) >>,
   down |-> << Drop({<<"index", "money_transfer", "IX_money_transfer_currency_type_status">>}),
               Drop({TableKey("money_transfer")}) >>]

NFTTransfer ==
  [name |-> "NFTTransfer",
   up |-> << Create(Table("nft_transfer",
                      {"id", "collection_id", "token_id", "network", "address_from", "address_to",
                       "block_number"})
             \cup {Index("nft_transfer", "IX_nft_transfer_collection_id_token_id", {"collection_id", "token_id"}),
                   Index("nft_transfer", "IX_nft_transfer_network_block_number", {"network", "block_number"})}) >>,
   down |-> << Drop({<<"index", "nft_transfer", "IX_nft_transfer_collection_id_token_id">>}),
               Drop({<<"index", "nft_transfer", "IX_nft_transfer_network_block_number">>}),
               Drop({TableKey("nft_transfer")}) >>]

SearchIndex ==
  [name |-> "SearchIndex",
   up |-> << Create(Table("search_index",
                      {"id", "collection_id", "token_id", "network", "value", "is_trait", "locale"})
             \cup {Index("search_index", "IX_search_index_collection_id_token_id_locale",
                         {"collection_id", "token_id", "locale"}),
                   NotNull("search_index", "value")}) >>,
   down |-> << Drop({<<"index", "search_index", "IX_search_index_collection_id_token_id_locale">>}),
               Drop({TableKey("search_index")}) >>]

\* Mutant: the old tables are dropped and their trades not moved.
DropOldTrades ==
  [name |-> "MoveToEvm", up |-> << Using({TableKey("Trade")}) >> \o DropSchema, down |-> CreateSchema]

(* Each old trade becomes a bought ask and a trade.  The rows are inserted *)
(* through the entities of TODAY, so every column of today's entities must *)
(* already exist; without old trades nothing is inserted.                  *)
MoveToEvm ==
  [name |-> "MoveToEvm",
   up |-> << Using({TableKey("Trade")}),
             If({RowKey("Trade", "old")},
                [Nothing EXCEPT
                   !.needs = ColumnKeys("contract_ask", ContractAskColumns)
                               \cup ColumnKeys("market_trade", MarketTradeColumns),
                   !.make = {Row("market_trade", "old")}]) >>
          \o DropSchema,
   down |-> CreateSchema]

AuctionTables ==
  [name |-> "AuctionTables",
   up |-> << Create({Type("auction_status_enum")}), Create({Type("bid_status_enum")}),
             Create(Table("auctions", {"id", "created_at", "updated_at", "price_step", "start_price",
                                       "stop_at", "contract_ask_id"})
               \cup {Typed("auctions", "status", "auction_status_enum"),
                     NotNull("auctions", "contract_ask_id"),
                     ForeignKey("auctions", "FK_auctions_contract_ask_id", {"contract_ask_id"}, "contract_ask")}),
             Create(Table("bids", {"id", "created_at", "updated_at", "amount", "auction_id",
                                   "bidder_address", "is_withdrawn"})
               \cup {Typed("bids", "status", "bid_status_enum"),
                     ForeignKey("bids", "FK_bids_auctions_id", {"auction_id"}, "auctions"),
                     Index("bids", "UNIQUE_bidder_auction", {"auction_id", "bidder_address"})}) >>,
   down |-> DropTables(<<"bids", "auctions">>)
            \o << Drop({TypeKey("auction_status_enum")}), Drop({TypeKey("bid_status_enum")}) >>]

AmountKeys ==
  << ColumnKey("contract_ask", "price"), ColumnKey("auctions", "start_price"),
     ColumnKey("auctions", "price_step"), ColumnKey("bids", "amount") >>
AsNumeric(k) == Append(k, {TableKey(k[2]), Key(Numeric)})
AsBefore(k) == Append(k, {TableKey(k[2])})

(* The unique index is not dropped by down.                                *)
AuctionConstraints ==
  [name |-> "AuctionConstraints",
   up |-> << FailIf({RowKey("contract_ask", "twoActive")}, {}),
             Create({Index("contract_ask", "UNIQUE_active_contract_ask", {"collection_id", "token_id"})}),
             Create({Column("bids", "pending_amount")}) >>
          \o [i \in 1..4 |-> Change({AmountKeys[i]}, {AsNumeric(AmountKeys[i])})],
   down |-> [i \in 1..4 |-> Change({AmountKeys[5 - i]}, {AsBefore(AmountKeys[5 - i])})]
            \o << Drop({ColumnKey("bids", "pending_amount")}) >>]

AuctionRefactoring ==
  [name |-> "AuctionRefactoring",
   up |-> << Drop({ColumnKey("bids", "is_withdrawn")}), Drop({ColumnKey("bids", "pending_amount")}),
             Create({Column("bids", "block_number")}),
             Drop({<<"index", "bids", "UNIQUE_bidder_auction">>}),
             Create({Index("bids", "IX_bidder_auction", {"auction_id", "bidder_address"})}),
             Using({TypeKey("bid_status_enum"), TypeKey("auction_status_enum")}) >>,
   down |-> << Drop({<<"index", "bids", "IX_bidder_auction">>}),
               FailIf({RowKey("bids", "severalBids")}, {}),
               Create({Index("bids", "UNIQUE_bidder_auction", {"auction_id", "bidder_address"})}),
               Drop({ColumnKey("bids", "block_number")}),
               Create({Column("bids", "pending_amount")}), Create({Column("bids", "is_withdrawn")}) >>]

BidTotalAmount ==
  [name |-> "BidTotalAmount", up |-> << Create({Column("bids", "balance")}) >>,
   down |-> << Drop({ColumnKey("bids", "balance")}) >>]

\* The three migrations that encode the sellers' addresses again undo nothing.
FixOffers0325 ==
  [name |-> "FixOffers0325", up |-> << Using({ColumnKey("contract_ask", "address_from")}) >>, down |-> <<>>]
FixOffers0404 ==
  [name |-> "FixOffers0404", up |-> << Using({ColumnKey("contract_ask", "address_from")}) >>, down |-> <<>>]
FixOffers0405 ==
  [name |-> "FixOffers0405", up |-> << Using({ColumnKey("contract_ask", "address_from")}) >>, down |-> <<>>]

FixTrades ==
  [name |-> "FixTrades",
   up |-> << Using(ColumnKeys("market_trade", {"address_seller", "address_buyer"})) >>, down |-> <<>>]

\* down is empty: the columns stay.
LoggerUpdate ==
  [name |-> "LoggerUpdate",
   up |-> << Create(Columns("contract_ask", {"created_at_ask"})), Create(Columns("contract_ask", {"updated_at"})),
             Create(Columns("nft_transfer", {"created_at"})), Create(Columns("nft_transfer", {"updated_at"})) >>,
   down |-> <<>>]

\* Mutant: nothing is undone.
AdminSessionStays ==
  [name |-> "AdminSession", up |-> << Create(Table("sessions", AdminSessionColumns)) >>, down |-> <<>>]

AdminSession ==
  [name |-> "AdminSession",
   up |-> << Create(Table("sessions", {"id", "address", "substrate_address", "access_token",
                                       "refresh_token", "created_at", "updated_at"})) >>,
   down |-> DropTables(<<"sessions">>)]

CreateCollectionsTable ==
  [name |-> "CreateCollectionsTable",
   up |-> << Create(Table("collections",
               {"id", "owner", "mode", "decimal_points", "name", "description", "token_prefix",
                "mint_mode", "allowed_tokens", "status", "import_type", "created_at", "updated_at"})) >>,
   down |-> DropTables(<<"collections">>)]

TokensTable ==
  [name |-> "TokensTable",
   up |-> << Create(Table("tokens", {"id", "collection_id", "token_id", "owner_token", "created_at",
                                     "updated_at"})) >>,
   down |-> DropTables(<<"tokens">>)]

\* Mutant: the entity's third new column is forgotten.
AddWithoutCommission ==
  [name |-> "AddMarketTradeInfo", up |-> << Create(Columns("market_trade", {"method", "origin_price"})) >>,
   down |-> << Drop(ColumnKeys("market_trade", {"method", "origin_price"})) >>]

AddMarketTradeInfo ==
  [name |-> "AddMarketTradeInfo",
   up |-> << Create(Columns("market_trade", {"method"})), Create(Columns("market_trade", {"origin_price"})),
             Create(Columns("market_trade", {"commission"})) >>,
   down |-> [i \in 1..3 |-> Drop({ColumnKey("market_trade", <<"method", "origin_price", "commission">>[i])})]]

AlterSearchIndexType ==
  [name |-> "AlterSearchIndexType",
   up |-> << Create({Column("search_index", "items")}), Create({Type("search_index_type_enum")}),
             Create({Typed("search_index", "type", "search_index_type_enum")}),
             Drop({<<"notnull", "search_index", "value">>}) >>,
   down |-> << FailIf({RowKey("search_index", "attribute")}, {}),
               Create({NotNull("search_index", "value")}),
               Drop({ColumnKey("search_index", "type")}), Drop({TypeKey("search_index_type_enum")}),
               Drop({ColumnKey("search_index", "items")}) >>]

\* The enum is renamed away, made anew and the column moved to the new one.
NewEnum(t, old, new) ==
  << Change({TypeKey(old), ColumnKey(t, "status")}, {Type("old_enum"), Typed(t, "status", "old_enum")}),
     Create({Type(new)}),
     Change({ColumnKey(t, "status")}, {Typed(t, "status", new)}),
     Drop({TypeKey("old_enum")}) >>

AlterSearchIndexKey ==
  [name |-> "AlterSearchIndexKey",
   up |-> << Create({Column("search_index", "key")}),
             Change({TypeKey("search_index_type_enum"), ColumnKey("search_index", "type")},
                    {Type("search_index_type_enum"), Typed("search_index", "type", "search_index_type_enum")}),
             Create({Index("search_index", "IX_search_index_key", {"key"})}) >>,
   down |-> << Drop({<<"index", "search_index", "IX_search_index_key">>}),
               FailIf({RowKey("search_index", "number")}, {}),
               Change({TypeKey("search_index_type_enum"), ColumnKey("search_index", "type")},
                      {Type("search_index_type_enum"), Typed("search_index", "type", "search_index_type_enum")}),
               Drop({ColumnKey("search_index", "key")}) >>]

AddedAuctionStatus ==
  [name |-> "AddedAuctionStatus", up |-> NewEnum("auctions", "auction_status_enum", "auctions_status_enum"),
   down |-> << FailIf({RowKey("auctions", "failed")}, {}) >>
              \o NewEnum("auctions", "auctions_status_enum", "auction_status_enum")]

ChangedContractId ==
  [name |-> "ChangedContractId", up |-> << Drop({<<"notnull", "auctions", "contract_ask_id">>}) >>,
   down |-> << FailIf({RowKey("auctions", "failed")}, {}), Create({NotNull("auctions", "contract_ask_id")}) >>]

ChangeSearchIndex ==
  [name |-> "ChangeSearchIndex",
   up |-> << Drop({ColumnKey("search_index", "value")}), Create({Column("search_index", "count_item")}),
             Create({Column("search_index", "total_items")}), Create({Column("search_index", "list_items")}) >>,
   down |-> << Drop({ColumnKey("search_index", "total_items")}), Drop({ColumnKey("search_index", "count_item")}),
               Create({Column("search_index", "value")}), Drop({ColumnKey("search_index", "list_items")}) >>]

(* down drops the column first: its index goes with it, and dropping the   *)
(* index then fails.                                                       *)
UpdatedSearchIndexListItems ==
  [name |-> "UpdatedSearchIndexListItems",
   up |-> << Create({Index("search_index", "IX_search_index_total_items", {"total_items"})}),
             Create({Index("search_index", "IX_search_index_list_items", {"list_items"})}),
             Using(ColumnKeys("search_index", {"type", "key", "items", "list_items"})) >>,
   down |-> << Drop({ColumnKey("search_index", "list_items")}),
               Drop({<<"index", "search_index", "IX_search_index_list_items">>}),
               Drop({<<"index", "search_index", "IX_search_index_total_items">>}) >>]

UpdateSearchIndex ==
  [name |-> "UpdateSearchIndex",
   up |-> << Using(ColumnKeys("search_index", {"type", "key", "items", "count_item", "total_items"})) >>,
   down |-> <<>>]

ViewOffersFilter ==
  [name |-> "ViewOffersFilter",
   up |-> << Create({View("v_auction_bids",
                          ColumnKeys("auctions", AuctionColumns)
                            \cup ColumnKeys("bids", {"auction_id", "amount", "bidder_address"}))}) >>,
   down |-> << Drop({<<"view", "v_auction_bids", "v_auction_bids">>}) >>]

FilterSearch ==
  [name |-> "FilterSearch",
   up |-> << Create({View("v_offers_search",
                          OfferFiltersColumns \cup {<<"view", "v_auction_bids", "v_auction_bids">>})}) >>,
   down |-> << Drop({<<"view", "v_offers_search", "v_offers_search">>}) >>]

-----------------------------------------------------------------------------
(* Orders.                                                                 *)

SearchStamped == <<AlterSearchIndexType, AlterSearchIndexKey>>
StatusStamped == <<AddedAuctionStatus, ChangedContractId>>
LateStamped == <<ChangeSearchIndex, UpdatedSearchIndexListItems, UpdateSearchIndex, ViewOffersFilter, FilterSearch>>

FirstReleases ==
  <<Initial, AccountPairs, BlockchainBlock, ContractAsk, MarketTrade, MoneyTransfer, NFTTransfer,
    SearchIndex, MoveToEvm, AuctionTables, AuctionConstraints, AuctionRefactoring, BidTotalAmount,
    FixOffers0325>>

(* TypeORM takes the last 13 digits of a name for its time.  Stamps in     *)
(* milliseconds (1648581626971) and those of 16 digits (2022062410510000)  *)
(* come out larger than those of 14 digits (20220505000000).               *)
ByTimestamp ==
  FirstReleases \o <<FixOffers0404, FixOffers0405, FixTrades, LoggerUpdate, AdminSession,
                     CreateCollectionsTable, TokensTable, AddMarketTradeInfo>>
    \o SearchStamped \o StatusStamped \o LateStamped

\* The order of the dates in the names: the order in which they were released.
ByRelease ==
  FirstReleases \o SearchStamped \o <<FixOffers0404, FixOffers0405, FixTrades, LoggerUpdate>>
    \o StatusStamped \o <<AdminSession, CreateCollectionsTable, TokensTable, AddMarketTradeInfo>>
    \o LateStamped

Names(ms) == [i \in DOMAIN ms |-> ms[i].name]
Migration(name) == ByTimestamp[CHOOSE i \in DOMAIN ByTimestamp : ByTimestamp[i].name = name]
Pending == SelectSeq(ByTimestamp, LAMBDA m : m.name \notin ToSet(executed))

(* A migration of a run: the first that fails is remembered.               *)
Up(run, m) ==
  IF run.failed # <<>> THEN run
  ELSE LET result == Perform(run.db, m.up)
       IN IF result.ok THEN [run EXCEPT !.db = result.db, !.done = Append(@, m.name)]
                       ELSE [run EXCEPT !.failed = <<"up", m.name>>]

RunAll(objects, ms) == FoldLeft(Up, [db |-> objects, done |-> <<>>, failed |-> <<>>], ms)

EmptyDatabase == {Numeric}
Fresh == RunAll(EmptyDatabase, ByTimestamp).db

-----------------------------------------------------------------------------
(* An installation.                                                        *)

(* Rows that a migration's success depends on: a trade of the first        *)
(* marketplace, two active asks of one token, two bids of one bidder, a    *)
(* failed auction (it has no ask), an attribute, an attribute with a number*)
Facts ==
  {<<"Trade", "old">>, <<"contract_ask", "twoActive">>, <<"bids", "severalBids">>,
   <<"auctions", "failed">>, <<"search_index", "attribute">>, <<"search_index", "number">>}

\* A fact needs the table, column or enum value it is about, and not the rule it breaks.
Admits(objects, f) ==
  /\ TableKey(f[1]) \in Keys(objects)
  /\ f[2] = "twoActive" => <<"index", "contract_ask", "UNIQUE_active_contract_ask">> \notin Keys(objects)
  /\ f[2] = "severalBids" => <<"index", "bids", "IX_bidder_auction">> \in Keys(objects)
  /\ f[2] = "failed" => <<"notnull", "auctions", "contract_ask_id">> \notin Keys(objects)
  /\ f[2] = "attribute" => <<"notnull", "search_index", "value">> \notin Keys(objects)
  /\ f[2] = "number" => ColumnKey("search_index", "key") \in Keys(objects)

WithRows(objects, facts) == objects \cup {Row(f[1], f[2]) : f \in facts}

\* The databases that releases have migrated, in the order they came out.
Released ==
  [k \in 0..Len(ByRelease) |-> RunAll(EmptyDatabase, SubSeq(ByRelease, 1, k)).db]

\* The tables of the .NET marketplace, of its last or of an older version.
DotNet(latest) ==
  Perform(EmptyDatabase, CreateSchema).db \cup Table("__EFMigrationsHistory", {})
    \cup (IF latest THEN {Row("__EFMigrationsHistory", LatestOldInstallation[3])} ELSE {})

MigrationInit ==
  /\ serving = FALSE
  /\ refused = <<>>
  /\ \/ \E k \in 0..Len(ByRelease) :
          \E facts \in {{}} \cup {{f} : f \in {g \in Facts : Admits(Released[k], g)}} :
            db = WithRows(Released[k], facts) /\ executed = Names(SubSeq(ByRelease, 1, k))
     \/ \E latest \in BOOLEAN, facts \in {{}, {<<"Trade", "old">>}} :
          db = WithRows(DotNet(latest), facts) /\ executed = <<>>

(* bootstrap with autoDBMigrations.  On an error the transaction is rolled *)
(* back, the error logged, and the process does not listen.                *)
Bootstrap ==
  /\ ~serving
  /\ LET run == RunAll(db, Pending)
     IN \/ /\ run.failed = <<>>
           /\ db' = run.db
           /\ executed' = executed \o run.done
           /\ serving' = TRUE
           /\ refused' = <<>>
        \/ /\ run.failed # <<>>
           /\ refused' = run.failed
           /\ UNCHANGED <<db, executed, serving>>

\* SIGTERM, SIGINT: gracefulShutdown.
Shutdown == serving /\ serving' = FALSE /\ UNCHANGED <<db, executed, refused>>

\* migration:revert: the down of the migration executed last, in a transaction.
Revert ==
  /\ ~serving
  /\ executed # <<>>
  /\ LET name == Last(executed)
         result == Perform(db, Migration(name).down)
     IN \/ /\ result.ok
           /\ db' = result.db
           /\ executed' = Front(executed)
           /\ refused' = <<>>
        \/ ~result.ok /\ refused' = <<"down", name>> /\ UNCHANGED <<db, executed>>
  /\ UNCHANGED serving

MigrationNext == Bootstrap \/ Shutdown \/ Revert

MigrationSpec == MigrationInit /\ [][MigrationNext]_migrationVars

\* An installation that begins with an empty database.
FreshSpec == MigrationInit /\ db = Released[0] /\ [][MigrationNext]_migrationVars

-----------------------------------------------------------------------------
(* Properties.                                                             *)

Schema == {x \in db : x[1] # "row"}

(* Whenever the application listens, every table, column and view that an  *)
(* entity names exists, and the schema is that of a fresh installation,    *)
(* indexes and constraints included: neither the release it comes from, nor*)
(* the other order in which it ran the migrations, nor a revert makes a    *)
(* difference to the queries.                                              *)
SchemaServed == serving => Schema = Fresh /\ Entities \subseteq Keys(db)

(* An upgrade does not lose a trade of the first marketplace: its table is *)
(* dropped only once the trade is in market_trade, whatever fails.         *)
OldTradesKept ==
  [][Len(executed') >= Len(executed) /\ RowKey("Trade", "old") \in Keys(db) =>
       {RowKey("Trade", "old"), RowKey("market_trade", "old")} \cap Keys(db') # {}]_migrationVars

(* A revert is refused for rows that the older schema cannot hold, and by  *)
(* one migration whatever the rows are: UpdatedSearchIndexListItems, the   *)
(* fourth from the end, so reverts never get past it (EveryMigrationReverts*)
(* is what the repository's test takes for granted).  A start is refused   *)
(* for an installation that is too old, for old trades (their insertion    *)
(* needs columns of later migrations), for two active asks of one token,   *)
(* and where a revert left behind what the migration creates: the unique   *)
(* index of AuctionConstraints, the columns of LoggerUpdate.               *)
OnlyTheseRefusals ==
  \/ refused = <<>>
  \/ refused[1] = "down" /\ (refused[2] = "UpdatedSearchIndexListItems" \/ \E x \in db : x[1] = "row")
  \/ refused = <<"up", "Initial">> /\ History \in Keys(db) /\ LatestOldInstallation \notin Keys(db)
  \/ refused = <<"up", "MoveToEvm">> /\ RowKey("Trade", "old") \in Keys(db)
  \/ /\ refused = <<"up", "AuctionConstraints">>
     /\ Keys(db) \cap {RowKey("contract_ask", "twoActive"),
                       <<"index", "contract_ask", "UNIQUE_active_contract_ask">>} # {}
  \/ refused = <<"up", "LoggerUpdate">> /\ ColumnKey("nft_transfer", "updated_at") \in Keys(db)

(* Every migration of a fresh database can be undone, one after the other,  *)
(* as migrations.test.ts does.  The code cannot, which is what the run of  *)
(* FreshSpec shows: down of UpdatedSearchIndexListItems is refused.        *)
EveryMigrationReverts == refused # <<>> => refused[1] # "down"
=============================================================================
