# Unique Marketplace: models, checks and proofs

TLA+ models of the back end in this repository: the auctions (`src/src/auction`),
the contract in which tokens are offered at a fixed price
(`src/blockchain/MarketPlace.sol`), the two escrow processes that connect
the contract, the database and the Kusama chain (`src/src/escrow`), the ways a token
is put on sale (`src/src/auction`, `src/src/admin`), the queries of the market
(`src/src/offers`, `src/src/trades`) and the database migrations
(`src/src/migrations`). The models
are translated from the source; `PROJECT.json` maps each definition to its lines.

Contents: [the system](#the-system) · [modules](#modules) ·
[runs](#runs) · [bounds](#bounds) · [fairness](#fairness) ·
[proofs](#proofs) · [where code and comments disagree](#where-code-and-comments-disagree) ·
[left out](#left-out) · [plan](#plan)

## The system

Three processes share one PostgreSQL database and talk to two chains: the API
process (NestJS), `start_escrow unique` and `start_escrow kusama`. The interval
handlers of the auctions run in the escrow process, next to the scanners.

| part | state | operations | talks to |
|---|---|---|---|
| bids (`auction/services/bid-placing`, `bid-withdraw`) | `bids`, `contract_ask.price` | placeBid, calculate, withdrawBidByBidder, withdrawBidsByBidder | REPEATABLE READ transactions; transfers on Kusama, the bidder's own for a bid, the market's for a withdrawal |
| cancelling (`auction-canceling`) | `contract_ask`, `auctions` | tryCancelAuction | one transaction, then the token goes back on Unique |
| stopping and closing (`closing/`) | `auctions`, `bids`, `market_trade` | two interval handlers, 5 s and 10 s | autocommit statements; refunds, the token, the seller's money |
| creation (`auction-creation`), mass sale (`admin/services/mass-sale`) | `contract_ask`, `auctions` | create, massAuctionSale, massFixPriceSale | the token is transferred to the auction account first |
| contract (`MarketPlace.sol`) | `orders`, `asks`, `balanceKSM`, the tokens it owns | addAsk, editAsk, cancelAsk, buyKSM, buy, depositKSM, withdrawKSM, withdrawAllKSM | each call is atomic on Unique |
| unique escrow (`escrow/unique`) | `contract_ask`, `market_trade`, `money_transfer`, `blockchain_block` | scan a block, process each call, carry out deposits | reads Unique, calls the contract, leaves rows for the Kusama escrow |
| kusama escrow (`escrow/kusama`) | `money_transfer`, `blockchain_block` | scan a block, record deposits, carry out withdrawals | reads Kusama, transfers on Kusama, leaves rows for the Unique escrow |
| administration (`admin/services`) | `contract_ask`, `collections`, `tokens` | mass cancel, collections, allowed tokens, mass sale | writes the same tables as the escrow |
| search index (`auction/services/search-index`) | `search_index` | addSearchIndexIfNotExists, updateSearchIndex, token-info | filled by auctions, mass sales, the escrow and by requests; reads Unique |
| offers, trades (`offers`, `trades`) | none of their own | lists with filters, sorting and pages; attributes with counts | one statement per page, count or attribute |
| schema (`migrations`, `database`, `entity`, `main.ts`) | every table, `migrations` | start with pending migrations, revert | before anything else |
| settings, broadcast, log-in, signatures, commands, chain clients | none | configuration, notifications, cryptography | |

What is hard in it:

* **Races in the database.** Three kinds of requests read a snapshot and write
  later; PostgreSQL aborts the one whose *row* was updated meanwhile, and nothing
  aborts two that write different rows. The handlers of the escrow process write
  rows by the ids they found in an earlier statement.
* **Rows before and after chains.** A bid is a row (`minting`) before its
  transfer is known to have succeeded; refunds and payments likewise. The
  submission can fail after the transfer was executed.
* **Two chains, two processes, no common transaction.** A sale happens in the
  contract; the Unique escrow takes the price off the seller's account in the
  contract, the Kusama escrow pays it on Kusama; the only link is a table.
* **Two meanings of one row.** `contract_ask` holds the contract's asks and the
  auctions' asks; the escrow, which writes the former later than the contract was
  called, finds an ask by collection and token.
* **Check, then insert.** The search index and the ask of a token are looked for and then
  inserted, by several processes, after the token was already transferred.
* **Queries between writes.** A page, its count and the counts beside the filters are
  separate statements over joins whose rows multiply.
* **Migrations in two orders.** TypeORM orders them by a number in their name that is
  not always their date, so that old and fresh installations run them differently.
* **Restarts.** A block is recorded as scanned after its calls were processed, so
  a restart processes some again; a row `IN_PROGRESS` is not carried on.

The correctness properties per part, in short (the modules state them):

* bids: the price covers every bid, grows by the step, is never undercut by a
  concurrent bid; a finished bid was paid; the leader's money stays.
* cancelling and closing: token and money are exclusive for the seller, the
  seller is paid once, losers are refunded exactly, the winner is charged what
  the ask shows; every auction ends.
* contract: what is offered is held, an offer is reopened only by the owner of its token, a token leaves
  to the one who offered it last or against its price, and a sale conserves money.
* escrow: a row moves money at most once; a status tells the truth; no deposit or
  sale is forgotten across restarts, no sale is recorded or paid twice through
  failed scans and the administrator's writes; in the end, everybody has what
  they deposited and sold for, less what they paid; the escrow stays solvent.

* listing: an auction that runs has its token and its ask; no token stays on the
  auction account unnoticed, unless its transfer at the end of an auction fails; what is offered can be found.
* catalogue: who reads all the pages has seen all there was; the counts are those of the filters.
* schema: whichever way an installation was migrated, what listens has the same
  schema and it is the one the entities name; no old trade is lost.

`PROJECT.json` lists the hazards line by line with the properties that would
catch them.

## Modules

| module | models | state |
|---|---|---|
| `Auction` | one auction: requests, interval handlers, database rows, both chains, faults | 13 variables |
| `MarketContract` | the contract as one atomic step per call; checked as a part of `Escrow` | 4 variables |
| `Escrow` | extends `MarketContract` with both chains' blocks, both escrow processes, the tables between them, the administrator | 17 variables |
| `Exchange` | abstract: what an exchange at fixed prices promises; `MarketContract` and `Escrow` implement it | 4 variables |
| `Listing` | several tokens from their transfer to the auction account or the contract to an ask in the table and an entry in the index, and the ends of those asks | 17 variables |
| `Migrations` | every migration of the repository, up and down, and the start and revert that run them | 4 variables |
| `Catalogue` | the tables as queries see them, and a client that walks through pages | 7 variables |
| `Database` | composes `Migrations` and `Catalogue`: queries are served on the schema the migrations made | |
| `MCAuction`, `MCEscrow`, `MCListing`, `MCDatabase` | symmetry sets and tables for TLC | |
| `AuctionProofs`, `MarketContractProofs`, `EscrowProofs`, `ListingProofs` | theorems about the module of that name | |
| `AuctionPriceProofs`, `AuctionMoneyProofs` | on top of `AuctionProofs`: the sums of the bids, the price and the lead; what is charged, refunded and paid | |
| `EscrowMirrorProofs`, `EscrowMoneyProofs` | on top of `EscrowProofs`: what the tables tell of the contract; where the money is between the two chains | |

### Auction

*State.* `ask`, `auction`, `bid`, `trades` are the rows of `contract_ask`,
`auctions`, `bids`, `market_trade`; `finished` and `minting` are the two sums of
`DatabaseHelper.buildGroupedBidsQuery`, kept up with every row that changes.
`xt`, `held`, `paidOut`, `token` are the chains: the extrinsic of each bid row,
the bidder's money on the market's account, the seller's money, the token's owner.
`req` is a request's position in the API process, `stopper` and `closer` those
of the interval handlers.

*Transactions.* A transaction is `Begin` (everything is computed from the
snapshot) and `Commit` (everything is written), or `Abort` when a row that it
updates was updated by somebody else since `Begin`; `missed` in `req` records
that. This is PostgreSQL's "could not serialize access due to concurrent update"
under REPEATABLE READ, no more: two transactions that write different rows both commit.

*Steps.* Outside of transactions each awaited statement or submission is a step.
A bid row is named after the request that inserts it, or after the bidder for
the refund inserted at closing, which closing does once per bidder.

*Faults.* `bidFails`, `transferFails`, `tokenFails` (an extrinsic is dropped or
fails), `watchLost` (it is executed, but `ExtrinsicSubmitter` rejects: FinalityTimeout
or an RPC error), `rpcFails` (`accountNextIndex` throws), `apiCrash`,
`closerCrash`. `PatientBidders` and `PromptTransactions` restrict the
environment, not the code: a bidder waits for its last answer before it asks
again, and closing does not overtake a transaction that began earlier. Without
the first, a bidder gets its money twice; without the second, a bid may be
committed after its auction was stopped, or even counted (below).

### MarketContract

`order[t]` is `orders[asks[collection][t]]`, the only order of a token that any
function reads; a token never offered has the empty order the constructor pushes, with owner
`address(0)` and price 0. `nft` is the owner of each token, `balanceKSM` the account of each user,
`coin` what each has of the chain's own coin, which `buy` is paid with. Coins move in `buy` only, and users
accept them: `buy` ignores the result of `send`, so that a seller which is a contract and refuses them would lose the price.

`transferFrom` reverts unless the sender owns the token, which is what keeps
`buyKSM` from selling a closed order: it does not look at `flagActive`. Tokens are an ERC-721 collection outside of the
contract, so `Transfer` moves a token to another user or to the contract itself, which is not told, and the
receiver of `BuyKSM` is any user or the contract. A token in the contract may therefore have a closed order, or none; the first to
call `buyKSM` or `buy` for it gets it, at the price of its last order or for nothing.

### Exchange

The abstract specification of the contract, from the point of view of those who
trust it with a token or with money: `offer` has of each token the terms of its last offer and whether it is open, `holder`
is where the token is, `funds` and `coins` are the money of each user inside and outside of the exchange.
A token that the exchange holds leaves in two ways: by `TakeOut`, while its offer is open and to nobody but the one who made it; or by a `Sale`,
to wherever the buyer likes, when the buyer has paid the price of the last offer to the one who made it, all in one of the two currencies.
Only `Offer`, by the token's holder, opens an offer, and only an open one is changed. What the exchange
does not promise is in it too: a token given to it without an offer (`Give`) is for sale at its last terms.
The refinement mapping is the identity; the abstraction is in the actions, of which `buyKSM`, `buy`, `cancelAsk` and `editAsk` must each
turn out to be one.

### Escrow

*Chains.* `chain[n]` is the sequence of successful calls in the blocks of a
network, `head[n]` its last block. Only blocks with calls are numbered;
`EmptyBlock` stands for the others and lets the money loop run.

*Processes.* `scanner[n].pc` is where the process of network `n` is:
`next` (about to take a block), `scan`, `register`, `bought`, `deduct`, `payout` (in the
handler of one call), `money` (in `processContractBalance` or `processWithdraw`),
`start`, `send`, `sent`, `failed` (in the carrying out of one row). A step ends at an
`await` after which a crash or another process could tell the difference.
`Crash` restarts from `getLastScannedBlock`.

*Money.* A row of `money_transfer` has a type (`deposit` to the contract, or
`withdraw` to Kusama; a negative deposit takes a sale's price off), a status and
`sent`, a history field that counts how often the row moved money. `due` is a
history variable: what a user deposited and sold for less what it paid.

*Others.* `MassCancelFind` and `MassCancelUpdate` are the query and the update of
`massFixPriceCancel`; `ToggleCollection` enables and disables the collection;
`ShareBlock` inserts a block in `blockchain_block` as the auction services do. `direct` in `Allowed` lets tokens move outside of the market, or to the contract without an ask: the escrow
sees nothing of it (`CallTransfer` is not logged), and when such a token is sold it finds no active ask and books nothing, neither a trade nor a
commission; the seller keeps what the contract credited. Without
crashes, `ToggleCollection` and `ShareBlock` are taken only when a block is about to begin (`NotMidBlock`): nothing else
reads what they write.

### Listing

*Requests.* `req[r]` is where a request is: `create_auction` (transfer, `owner`: check of the owner,
`save`: insert of the ask and the auction, `exists` and `fetch`: the index), a mass sale (`pool`: transfers that are
not finalized, `todo`: tokens that get an auction afterwards), a mass sale at a fixed price (three
extrinsics per token that nobody waits for), `token-info` and an update of the index.
A request that fails before its auction is saved answers with an error; `told` has the tokens that it may have moved.

*The contract and its scan.* `calls` are the calls that the escrow has not scanned; `scan` is its handler of an `addAsk`,
which cancels older asks of the token, indexes it and registers the ask, in steps between which the others run.
The row of an ask is named after the request that inserted it, or `Contract`.
`UNIQUE_active_contract_ask` is `Live(t) = {}`.

*Ends.* `CancelAuction`, `CloseAuction`, `Deliver`, `Settle` are the ends of an auction
as far as its rows and its token go; `Auction` has them in detail. The transfer of `Deliver` may fail: the code logs the error
and goes on (a cancellation answers with success, a winner's delivery is followed by the seller's payment), and `kept`, a history
variable, has the tokens that stayed. A token comes to the auction account by a request to the API only: one that somebody sends there
on its own is not modelled, and nobody is told of it either.

*Faults.* `dispatchFails` (in a block, but failed), `watchLost` (executed, but the submitter rejects), `dropped` (never
in a block), `fetchFails` (the token cannot be read for the index), `payFails` (the seller's payment fails: the ask stays ACTIVE).

### Migrations

A schema is a set of objects with what each one stands on; a step of a migration (`CREATE`,
`DROP`, `ALTER`) is refused when its object exists or what it needs is missing or still used.
Each migration is the sequence of its steps, up and down. `Entities` is what `src/src/entity`
names. `MigrationInit` has the databases an installation may start from: every prefix of the releases in the order of
their dates, with a row that some migration stumbles over or with none, and the two ages of the .NET marketplace that
`Initial` knows. `Bootstrap` runs the pending ones in one transaction, in TypeORM's order; `Revert` undoes the last.

### Catalogue

`offers` and `trades` are `contract_ask` (with its auction and bids) and `market_trade`; `copies` is how often a token's rows
are in `search_index`. `Offered` and `TradedIn` are the `WHERE` of the two lists on one row of their joins, with the nulls
of a left join; `Before` is the `ORDER BY`; `Pages` are the answers that an offset and a limit allow when the order leaves ties.
`walk` is a client that reads page after page until the count says that there are no more; `during` is a history
variable: what the writes did to the rows it asks for since it began. `AttributeCount` and `AmountOf` are
the numbers that the filter panel shows. The text search `LIKE '%text%'` is equality
with an item: what it can do to a walk or a count does not depend on how it compares.

### Database

`Migrate` and `Serve` are the steps of the two; the application serves only on a migrated schema.

## Runs

| run | states | what it shows |
|---|---|---|
| `auction_races` | 463,960 | with every fault, any interleaving of three requests and the handlers: price, custody and pay-out |
| `auction_settlement` | 183,689 | patient bidders, failing bids: refunds and payment are exact |
| `auction_liveness` | 455,857 | bids that fail, in any interleaving: every auction ends and its token leaves the market, unless a bid row is abandoned (below) |
| `escrow_settlement` | 713,600 | without faults, the money adds up across contract, database and chains at every moment and in the end, no transfer lacks its money, and every deposit, sale and withdrawal is carried to its end |
| `escrow_recovery` | 1,079,000 | one restart anywhere, transfers that fail or seem to: nothing twice, nothing forgotten |
| `escrow_admin` | 1,096,741 | every call of the contract (`editAsk` and `buy` too), tokens that move or come to it without an offer, failed scans, mass cancel, disabled collection, shared blocks: custody of what is offered, the refinement of `Exchange`, no sale recorded or paid twice |
| `listing` | 1,282,836 | creation, mass sales, scans, closings and index updates of two tokens, with every fault: custody, asks, index |
| `database` | 276,899 | every upgrade and revert; then writes between the pages of a walk: schema, old trades, pages, counts |
| `double_withdrawal`, `leader_withdraws`, `skipped_block`, `migrations_revert` | | counterexamples, see below |

Each property of a passing run has a mutant in `PROJECT.json`: a change of a
mapped definition, like a bug a programmer could make, under which the same run
violates the property. The mutants stand next to what they change, with a
comment that starts with "Mutant".

The runs say `CHECK_DEADLOCK FALSE` where the system may stop: an auction is over
and its requests are used up. The contract and the escrow never stop (empty blocks go on).

## Bounds

* **Auction.** Two bidders, three or four requests: a race needs two transactions
  and a handler, and the third request makes the state that they race in. The
  requests are used once each and may place, withdraw or cancel. Offers 1 to 3
  (0 to 4) around a start price of 2 and a step of 1: below, equal and above every
  comparison of `calculate`. The commission is 50 % so that rounding and an
  omitted fee are visible at small prices.
* **Escrow.** Two users, one token of one collection, one price of 2, commission
  100 %, at most 3 calls on Unique (`MaxUniqueCalls`), and 1 or 2
  deposits on Kusama (`MaxKusamaCalls`), at most one restart (`MaxRestarts`).
  `escrow_admin` has 2 calls and the most kinds of steps around them; transfers of tokens and calls of `editAsk` and `buy`, of which the escrow sees
  nothing, are not counted, so a token is offered, bought with either currency, brought back and closed by any of them. Each user
  starts with 2 coins, enough for one `buy`. In every run a token is sold once through an offer of the escrow's table: a second
  offer and its sale would be the third and fourth call. What `NoTradeTwice` and `NoPayoutTwice` say of further sales rests on the
  theorems `SalesTradedOnce` and `PaidOutOnce`, which bound no calls.
* **Liveness.** One purchase, a second deposit and a withdrawal on Kusama (`MaxKusamaCalls = 2`) put work on both loops at once;
  the auction has three requests, so that a bid fails while another is placed and a third withdrawn.
* **Listing.** Two tokens, two requests of any kind, two contract calls, each token initially with a
  user, with the main sale account or out of reach (`other`); at most three of requests and reachable tokens together (`MaxActors`), which leaves
  two requests on one token and one request on two. An auction, an ask of the contract not yet scanned and a closing meet in these.
* **Database.** Three tokens whose attributes differ in number, agree in number, and repeat an item, one of which is under another
  key for another token; a page of one
  row, so that a walk has up to four pages; three writes (`MaxWrites`): one before, one between and one after the pages that matter. Four filters
  of offers and two of trades use every condition at least once. Migrations are not bounded: all of them, all prefixes.
* **Symmetry** is used for bidders, requests and users where only safety is checked. `escrow_admin` also has a `VIEW` (`Live`), which hides
  locals of a process that it will assign before it reads them.

## Fairness

* `Auction`: weak fairness of what a request has begun (`Handle`), of the two
  interval handlers (`setIntervalAsync` calls them again when they return), and of
  each submitted extrinsic (a chain includes or drops it). No fairness for bidders,
  for the seller or for faults. Weak fairness is enough since nothing disables a
  begun operation for ever. `AuctionCloses` is checked with `bidFails` and without the two
  restrictions of the environment, so that bids may fail, roll back and be committed late.
* `Escrow`: weak fairness of each process's loop (`mainLoop` never ends) and of new
  blocks (both chains produce one every few seconds), which `base.ts:149` waits for.
  Users need not call. `EverythingIsCarried` is checked in `escrow_settlement`.
* `Listing`, `Migrations`, `Catalogue` state no liveness: a mass sale may hang (`Hangs`), and
  nobody has to read a next page.

## Proofs

The theorems hold for any number of bidders, requests, users and tokens, any offers, prices,
faults and bounds, from the named assumptions on constants (distinct accounts, natural numbers, a start price and
a step of at least 1, which `create-auction.ts` asks for; the users of the market are finitely many, which sums over them need). A theorem that needs a kind of fault or of writer to be absent, or bidders
that wait, says so in its `ASSUME`, on `Faults`, `Allowed` or `PatientBidders`; the others hold with all of them.

`AuctionProofs` (`Spec => [](...)` or `[][...]_vars`):

* `TypesHold` — the types, with what is needed to make them inductive: the closer's winner,
  a request's bidder and a row's bidder are bidders when they are used.
* `PaidOnce` — the seller is paid once. The invariant `OnceInv` ties the position
  of the closing handler to the status: once paid, no handler is before the
  payment, the auction is not stopped, and no stopping handler that could write
  "stopped" over it is on its way.
* `FinishedBidsArePaid` — a row is set to finished only from a request (or refund) that
  waits for an executed extrinsic (`SnapshotInv` names the rows that processes remember).
* `BidsNeverUndercut` — while a transaction is open and has missed no update of
  the ask, the price it has read is the price there is.
* `CancellingIsSafe`, `SellerHasOneOrTheOther` — the serialization of two transactions
  that write the same ask row is what makes "count the bids, then cancel" safe:
  after the commit of a cancellation, no row is live and no transaction that
  could still commit a bid is open.

`AuctionPriceProofs`, first with every fault, any interleaving and impatient bidders:

* `SumsAreOfRows` — `finished` and `minting` are, in every state, the sums over a bidder's rows that
  `buildGroupedBidsQuery` computes. A sum over the rows would be a recursion over a set; `SumsTo` says instead that a number *is a sum* when
  some function from the subsets of the rows to numbers starts at 0 and grows by each row's weight, and its lemmas (a row moves, a row
  joins, all are 0) give the function of the next state from that of the last, so that no induction is needed.
* `BidsRaiseByStep` — `RaiseInv` says what an open transaction that will place a bid has compared; until it
  commits or is aborted, the price it read is the price there is (`BidsNeverUndercut`), and the bids it read still include a live one.
* `PriceCoversBidders` — `PriceInv` is the property; a failing bid puts the price back to the largest sum that its
  snapshot leaves, and `FailingInv` says that nobody's sum has grown above that while its transaction stayed serializable.
  `WithdrawInv` says that a withdrawal takes off the finished sum that it read, so that a sum falls and never
  rises by it, unless its transfer fails.

The last two properties came out of these proofs weaker than they had been stated, for TLC's bounds hid three cases: see
[below](#where-code-and-comments-disagree).

Then under `Smooth`: bidders wait for their answers, addresses have one format, the market's transfers succeed and it
hears of them. Bids may still fail, and both processes may restart anywhere.

* `StartPriceHolds`, `LeadGrows` — from one invariant, the ladder. Give each bidder two heights: what it has
  finished, and its `Top`, what it will have if its minting bid succeeds. Until the first refund, and unless a bid is abandoned (`Early`),
  every height is 0 or at least the start price, none is above the price, one has reached it, no two bidders stand at the same height
  (`Apart`), and one whose height of finished bids is above all others has not asked to withdraw (`HasLeader`). Neither property is inductive
  without the others: that a failure lowers the price to a height that is left (`FallsRight`) needs somebody who stays, that somebody
  stays needs the heights to differ (two bidders at one height would each be "not the leader" and both may go), and that
  they differ needs offers to be above the price (`OffersAbove`).
* Below it, `AskerInv`, `OneAsker` and `LeaveInv` say what patience gives: a bidder has one request under way, so the
  sum that a withdrawal read in its snapshot is still its sum when it is paid.

`AuctionMoneyProofs`:

* `WinnerPaysPrice` — adds `PromptTransactions`. `ClosingInv` says that once the closing handler is at work no
  request's bid is minting and none will be inserted; the ladder then has one height per bidder, and its top is the price.
* `NobodyIsPaidTwice` — assumes patient bidders, `PromptTransactions`, no restart of the API process and no lost watch, but not that
  transfers succeed. `HeldInv`: what the market holds for a bidder is its finished sum and what the
  executed bids that are not finished yet have moved (`Loose`), again as `SumsTo`. At most one such bid is left per bidder (a request's, by
  `OneAsker`, or the refund's), and it takes off no more than the finished sum (`LeaveInv`, `RefundsAll`).
* `SettlementIsComplete` — assumes patient bidders, `PromptTransactions` and that what the market signs succeeds; bids fail
  and both processes restart. `RefundingInv` names whom the refunds have not reached yet, `SettlingInv` says
  that what the handler read when it began is still so at each of its steps, and `SoldInv` that nothing moves
  after the ask is bought. `DeliveredInv` and `TokenInv` are why the market still has the token when the winner is chosen: a
  handler that restarted after it delivered is not taken up again.

`MarketContractProofs`: `Custody` (types, no negative balance, what is offered is held, and an order has a
seller among the users or the price 0, `SellersAreUsers`) is inductive, with tokens that come to the contract in any way; `OwnersReopen` follows from it.
`ContractIsAnExchange` is the refinement: each call is a step of `Exchange` or a stutter. `cancelAsk` is `TakeOut` because an open order is
held; `buyKSM`, which looks at no flag, is a sale because `transferFrom` fails unless the token is there, and its two
updates of the balances are a payment also when buyer and seller are the same.
Its first part has what the money proofs need of sums over finite sets: `Sum` is the fold `MapThenSumSet` of the community
modules. An induction over the set cannot be stated to the provers, so the lemmas take a set of subsets that has no smallest
element (`NoSmallest`) instead: that a function exists which grows by each element's weight in any order (`AddsExists`), that the
fold computes it (`SumIs`), and from these what a sum does when a weight changes, an element joins, or a part is left out.

`EscrowProofs` (from `EscrowInvariant : Spec => []IInv`, which was a run's invariant before it was proved):

* `MoneyMovesOnce`, `StatusesAreTrue` — `CarryOK` says, for each process, which row it carries, of
  which type, with which status, and how often it was sent; the two processes never carry
  the same row because the types differ, and a restart only leaves rows in progress
  behind, which nobody picks again.
* `EscrowTypes` — no account is overdrawn (`RowOK`: what is sent on Kusama is no debt) and the
  ask a process goes back to exists (`PlaceOK`), also after a failed scan.
* `MarketKeepsCustody`, `MarketIsAnExchange` — the contract's custody, and its refinement of `Exchange`, hold when users and escrow
  call it together, with direct transfers and with everything else in `Allowed`.

`ProcessKeeps` is what each step of a process owes to the others: it writes its own place and rows
of its own duty.

The same module, from `ScanInvariant : Spec => []SInv`, also with everything in `Allowed`:

* `SInv` adds to `IInv` that the blocks of a chain are finished in order, that a call's index and its block grow together,
  that the process's `at` lies in the block it scans, and that a sale in work is at the `buyKSM` which made it.
* `DepositsAreRecorded` — a block is marked after its last call was looked at, and a look at a deposit leaves a row.
* `SalesTradedOnce`, `PaidOutOnce` — assume `"crash" \notin Allowed`. The set of sales that the scanner has gone
  past has at least as many elements as there are trades (or withdrawals), because each registration is the only one at its
  place and the place only goes forward. A restart takes it back, and a deposit or a withdrawal is then doubled,
  so the assumption is needed; failed scans, mass cancelling, disabled collections and shared blocks are not excluded.

`EscrowMirrorProofs` (from `MirrorInvariant`, which a run had checked before it was proved):

* `MInv` says for each token that, when no call is left to do with it, its open asks in the table are the
  contract's order; and that the next `buyKSM` to do finds the ask of its seller at its price, either because it is in the table or because an
  `addAsk` before it is still to do. `Todo` has the calls that the place of the scanner leaves to do,
  of which a restart makes more; those done twice find a table that already tells of them.
* It holds under `Undisturbed`: no failed scan (the rest of its block is lost), no `editAsk` (the table keeps the old price), no direct transfer (a sale without an ask has no trade), no mass cancelling or
  disabled collection (the table and the contract differ on purpose) and no shared block (`skipped_block`). Crashes, failed
  and lost transfers, and calls of the contract that fail, are all there. `OffersAreListed` and `SalesAreNotForgotten` follow from it;
  `TradesCountSales` in addition without crashes, from `SalesTradedOnce`'s count.

`EscrowMoneyProofs` (from `BooksInvariant : Calm => (Spec => []VInv)`, which TLC had checked before it was proved). `Calm` is: no crash, no
failed scan, no transfer that fails, no `editAsk`, no direct transfer, no other writer of the tables, and sellers who leave the price of a sale in the contract until it
is taken off; transfers may seem to fail (`watchLost`), and users and both processes interleave freely. Each of the others breaks the settlement: a failed
transfer is not tried again, what comes after an error in a block and what is in a shared block is lost, and the rest is
[below](#where-code-and-comments-disagree).

* The core are the books (`BooksOK`). A *stage* says how far each call of a chain is, from the place of its scanner: left, debited
  in the table, debited in the contract, done. A call and a row bring its user an amount, need
  an amount on Kusama, or owe the contract an amount, by their stage, and `Claims` sums that over all calls and rows. `Conserved`: what is due to a user
  is what it has in the contract, what it received and what calls and rows will bring it. `Covers`: the account on Kusama has the balances and all
  that is needed. `Backed`: the contract has from each seller what its sales still owe.
* None of the three goes without the rest. A sale changes hands in four places: the contract credits the seller at once, a negative
  deposit takes that off, a withdrawal less the commission is registered, and Kusama pays it. Between any two of them the totals
  are right only with the claims of the call in hand, and the debit succeeds only by `Backed`, since `withdrawKSM` refuses otherwise.
* `HandsOK` ties rows to processes: the row in hand is that of the call in hand (`SaleKnown`, `RowKnown`), a debit is never left lying
  for the money loop to take up (`NegativeRows`), and a row that was taken up and not sent is in somebody's hand (`InHand`). That a
  sale's ask has the price and the seller of its call comes from `MInv`.
* `EverybodySettles` — when both processes are done nothing is claimed, so `Conserved` is the settlement of every user to the last KSM.
* `MarketStaysSolvent` — the rows that `AccountCovers` adds up are among the claims, and all claims are at least 0 in what they need.
  By `Backed` and `Covers` no debit in the contract and no transfer on Kusama lacks its money when its turn comes (`SendsCovered`), so
  under `Calm` the error paths of `modifyBalanceOnContract` and `transfer` are reached by a wrong report only.
* `NobodyIsOverpaid` — the only thing that a call or row takes from a user is the price of its sale, which `Backed` has in the contract.

`ListingProofs` (from `ListingInvariant : ListingSpec => []ListingInv`):

* The core of the invariant is `CustodyOK`. A *claim* to a token is an auction that runs or owes the
  token to somebody (`RowClaim`), or a request that will create an auction for it (`Planned`). A
  claimed token is on the auction account and has a single claim (`HeldAt`), and what is on the
  account is claimed, was reported, or stayed there when its transfer failed at an auction's end (`KnownAt`, `kept`). `HeldAt` is what keeps two requests, which check the
  owner at different times, and the end of an auction from giving away each other's token.
* `PlanOK` and `CloserOK` say what the place of a request or of a closing implies about its rows.
* `AskOK`: while an auction with an ask runs, the escrow has nothing left to scan for its token, and
  gets nothing new, because a call of the contract needs the token, which `HeldAt` keeps away from it.
* `IndexOK`: the index is written before the ask in the escrow and after it in the API process;
  between the two somebody is at work on the token or failed to read it.
* `AuctionsAreBacked`, `AuctionsHaveAsks`, `NoTokenIsStranded`, `OffersAreIndexed` follow, one from each
  part, with the exceptions that the properties name.

Each step of a request is first brought to one form (`Becomes`: what the request is afterwards, and that
the other requests are as before), so that the invariant's parts need not look at the code of each step again.

The assumptions are those of the runs (`auction_settlement` and its neighbours) and none can be dropped: an impatient bidder is
paid twice (`double_withdrawal`), so is a patient one whose request was lost in a restart of the API process or whose watch was lost; two formats let the
leader go (`leader_withdraws`); a transaction that commits after closing began leaves a bid that nobody refunds; and a
transfer of the market's that fails leaves money or a token where it was, which the handlers log and forget.

Only model-checked: everything about `Migrations` (finite, so that TLC's check is complete) and `Catalogue`
(cardinalities and sorted sequences), and the two liveness properties, which the prover cannot state about `ENABLED`.

## Where code and comments disagree

* `double_withdrawal` — `tryCreateWithdrawingBid` sums finished bids; a bidder
  that asks again while its first withdrawal is minting is paid twice. The test
  (`tests/auction/bids.test.ts:108`) asks again only after the first was finalized.
* `leader_withdraws` — on a chain whose address format is not the one of the
  database (Kusama: 2, database: 42), the comparison of addresses never
  holds and the leader can withdraw. The other runs use one format, that of
  a development chain, to look at everything else.
* `skipped_block` — an auction's extrinsic in a block makes the escrow skip that block.
* `migrations_revert` — `tests/migrations.test.ts:26-28` undoes every migration of a database that was just created. The run
  (`FreshSpec`: an empty database at first) migrates it and undoes four; `down` of UpdatedSearchIndexListItems drops a column, with which its index
  goes, and then drops the index, which PostgreSQL refuses. `OnlyTheseRefusals`, a property of the run `database`, names what else is refused.

Not runs, but visible in the models and excluded by name from some of their properties:

* a failed bid whose rollback is itself aborted stays minting (`Abandoned`; `bid-placing.service.ts:114` logs
  the error) and its auction is never closed, though `types/auction.ts:13` says that a stopped auction
  waits for its last bids;
* a bid that commits after the auction was stopped (`PromptTransactions`);
* a withdrawal whose transfer fails (`WithdrawalFailed`; `bid-withdraw.service.ts:100`): the row becomes an error and the bidder's sum is again what it was,
  while the price was computed without it; its sum may lie above the price and `PriceCovers` excepts it;
* a price below one step: `checkBidAmount` asks a bid for the step only when the bidder is below the price, so one who has
  reached it may go over it by less (`OvertakeByStep`);
* an abandoned bid counts for its bidder but has no money behind it: two others may then have paid the same sum, each of them is
  not the leader when it looks, both withdraw, and the lead and the price fall (`NoneAbandoned` in `PriceAtLeastStart` and
  `LeadNeverDrops`);
* a seller who spends the KSM of a sale before the escrow takes it off
  (`hasty`, used in no run: `withdrawKSM` then reverts, the row is FAILED and the sale is paid all the same);
* a crash after an ask is BOUGHT and before the withdrawal is registered: never paid;
  a crash before `addBlock`: a deposit is registered twice;
* a price changed with `editAsk`, a sale with `buy` and a `cancelAsk` of a disabled
  collection, none of which reach the table; a token sold without an ask of its own (`direct`), which no trade records; a new ask lost because massFixPriceCancel reopened an
  old one and the unique index refuses it. They break the settlement, which is why
  `escrow_settlement` runs without them and `escrow_admin` states what still holds. `NoTradeTwice` and `NoPayoutTwice`
  count: they see a block that is handled twice, not a row that a mass cancelling reopened, a stale price or a row
  that a disabled collection left behind, for which the code has no remedy and the project no property;
* a bid that is marked as an error although its money arrived (`watchLost`). `FinishedIsPaid` says the converse, that no bid counts
  whose money did not arrive;
* a token whose transfer at the end of an auction fails (`kept`): the error is logged, the request or the closing goes on, and the token
  stays on the auction account (`auction-canceling.service.ts:163`, `auction-closing.service.ts:248`);
* a mass sale that takes a transfer which failed in its block for one that succeeded (`Phantom`): it creates an
  auction without its token, and where another auction of that token exists, the end of the first gives
  the second's token away; a transfer that is dropped hangs the sale (`Hangs`), after which its other tokens
  stay where they are;
* the escrow that scans a token's calls after its auction was created (`late`) cancels or sells the ask of the
  auction, which runs on without it;
* the seller's payment that fails leaves the ask ACTIVE for a token that has gone to the winner; the unique
  index then refuses its next ask, and a token transferred for it stays behind with an error (`told`);
* a walk through pages while rows leave, join, move or tie under its sort (`during`);
* counts beside the attributes that are not the number of offers: an auction with several bids, a token indexed
  twice, an item in two languages, an item that another offered token has under another key (the filter looks at the item
  only, `offers.service.ts:567`, the count at key and item), and, for the numbers of attributes, tokens two of whose attributes agree in length;
* a start with trades
  of the first marketplace is refused by MoveToEvm, whose insertion needs columns of later migrations; a revert of
  AuctionConstraints or LoggerUpdate leaves behind what the migration creates (`OnlyTheseRefusals`);
* a number in the text search of trades adds an OR at the top of the condition (`trades.service.ts:219`), which
  escapes the other filters; `TradedIn` has it, and no property calls it wrong.

## Left out

* Auction: the free balance check (a read of the chain without a lock), the ask's broadcast, `getBids`
  and the other queries that only read; `forceCloseAuction`, for tests,
  finds an auction and then writes "stopped", as the interval handler does.
  `Auction` has one auction; `Listing` has several, as far as rows and tokens go, but not a closing
  pass that an error in one of them ends.
* Contract: `setOwner`, `setEscrow`, `setNativeCoin`, `withdraw`, `terminate`, the metadata and currency of an order, sellers that refuse coins.
* Escrow: `processTransfer` (a log), account pairs and allow lists (a user is one account on all
  chains), other contracts' calls, `startFromBlock` modes, forks.
* Listing: restarts, whose effect on an auction is in `Auction` and on the scan in `Escrow`; one collection; allowed tokens, which nothing modelled reads; the description of a collection that is
  imported; what a token's text is in the index.
* Catalogue: the layout of answers (`parseOffers`, `parseSearchIndex`), the offer of one token.
* Migrations: the contents of rows, but for those that a migration fails on or loses; a start with
  `autoDBMigrations` switched off, which trusts whoever ran the migrations. `SettingsEntity` is named by no migration; no query uses it either.

Whole parts: settings, broadcast, log-in, signatures, commands and chain clients are input checks, cryptography,
configuration and I/O; `PROJECT.json` has a note for each.

## Plan

1. Core: `Auction`, `MarketContract`, `Escrow`, runs, first theorems. *Done.*
2. `Listing`: who holds a token from its transfer to its ask, mass sales, the search index; run and theorems. *Done.*
3. `Catalogue`: queries, counts and pages under writes; `Migrations` and `Database`: schema. *Done.*
4. `Exchange`, the abstract specification of the contract; the refinement checked and proved. *Done.*
5. Proofs of the price (`AuctionPriceProofs`) and of the escrow's tables (`EscrowProofs`, `EscrowMirrorProofs`). *Done.*
6. Proofs of the lead and of the settlement of `Auction` (`AuctionPriceProofs`, `AuctionMoneyProofs`). *Done.*
7. Proofs of the settlement of `Escrow` and of its solvency (`EscrowMoneyProofs`). *Done.*
8. Left: an ascending auction (bids raise, the last one wins, each loser is paid back) that `Auction` implements
   without faults; a ledger (deposit, trade, withdraw) that `Escrow` implements; a closing pass over several auctions in `Auction`.
