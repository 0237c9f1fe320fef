------------------------------ MODULE Listing ------------------------------
(***************************************************************************)
(* How tokens are put on sale and what else writes the rows of their       *)
(* offers: create_auction, the administrator's mass sales, the Unique      *)
(* escrow that registers the contract's asks later than they are made, the *)
(* search index that every one of them fills, and the ends of auctions     *)
(* (module Auction has those in detail, for a single auction).             *)
(*                                                                         *)
(* One collection.  A row of contract_ask is named after the request that  *)
(* inserts it and the token; the escrow's rows after Contract, of which    *)
(* only the last one of a token is kept.  A request is used once.          *)
(***************************************************************************)
EXTENDS Naturals, FiniteSets, Sequences

CONSTANTS
  Tokens,    \* the tokens of the collection
  Requests,  \* requests to the API process
  Contract,  \* names the rows that the escrow registers
  MaxCalls,  \* bound: calls of the contract
  MaxActors, \* bound: requests, together with the tokens that the market gets to see
  Faults     \* what may go wrong, see AllFaults

(* dispatchFails: an extrinsic is in a block and fails.  watchLost: it      *)
(* succeeds and the submitter rejects.  dropped: it never gets into a      *)
(* block.  fetchFails: the collection or token cannot be read, or the index*)
(* not be saved.  payFails: the winner's money does not reach the seller.  *)
AllFaults == {"dispatchFails", "watchLost", "dropped", "fetchFails", "payFails"}

ASSUME ListingAssumption ==
  /\ Contract \notin Requests
  /\ MaxCalls \in Nat /\ MaxActors \in Nat
  /\ Faults \subseteq AllFaults

VARIABLES
  (* the Unique chain *)
  owner,    \* who holds a token, see Owners
  calls,    \* successful calls of the contract that the escrow has not scanned
  made,     \* how many calls were made
  (* the database *)
  ask,      \* status of each row of contract_ask
  seller,   \* address_from of the escrow's row of a token
  auction,  \* status of its row of auctions
  index,    \* token -> how many copies of its items search_index holds
  enabled,  \* the status of the collection
  (* the processes *)
  req,      \* requests of the API process
  scan,     \* the escrow's handler of an addAsk
  closer,   \* what is left to do at the end of an auction
  (* history *)
  told,     \* tokens whose request was answered with an error after it may have moved them
  unsent,   \* rows of a mass sale whose transfer failed in its block
  late,     \* rows of auctions inserted before the escrow had scanned the token's calls
  unread,   \* tokens whose index could not be read anew
  lost,     \* transfers of a mass sale that were dropped
  kept      \* tokens that did not leave the auction account at the end of an auction

chain == <<owner, calls, made>>
rows == <<ask, seller, auction>>
history == <<told, unsent, late, unread, lost, kept>>
listingVars == <<chain, rows, index, enabled, req, scan, closer, history>>

Rows == (Requests \cup {Contract}) \X Tokens
RowsOf(t) == {x \in Rows : x[2] = t}

\* UNIQUE_active_contract_ask: the rows of a token that are neither cancelled nor bought.
LiveStatus == {"active", "removed_by_admin"}
Live(t) == {x \in RowsOf(t) : ask[x] \in LiveStatus}

Unscanned(t) == (\E i \in DOMAIN calls : calls[i].token = t) \/ (scan.pc # "idle" /\ scan.token = t)

(* Somebody who never deals with the market, a user, the main sale account, *)
(* its mirror (the Ethereum address of massFixPriceSale), the contract, the*)
(* auction account.                                                        *)
Owners == {"other", "user", "admin", "mirror", "contract", "auction"}

NoToken == "none"
IdleRequest == [kind |-> "none", pc |-> "idle", token |-> NoToken, pool |-> {}, todo |-> {}]
IdleScan == [pc |-> "idle", token |-> NoToken, who |-> "user"]

At(r, pc) == req[r].pc = pc
Goes(r, pc) == req' = [req EXCEPT ![r].pc = pc]

-----------------------------------------------------------------------------
(* Requests.                                                               *)

Finished(r) == [req EXCEPT ![r].pc = "done", ![r].todo = {}, ![r].token = NoToken]

(* An error.  create_auction saves a failed auction, which has no ask, and *)
(* answers with the error; the others answer 500 and drop their other work.*)
Fails(r) ==
  /\ req' = Finished(r)
  /\ told' = IF req[r].kind \in {"create", "mass"} THEN told \cup {req[r].token} \cup req[r].todo
                                                  ELSE told

\* The offer is broadcast; a mass sale and an update go on with their next token.
NextOrDone(r) ==
  req' = IF req[r].todo = {} THEN Finished(r)
         ELSE [req EXCEPT ![r].pc = "next", ![r].token = NoToken]

-----------------------------------------------------------------------------
(* create_auction: the transaction in the request transfers the token to   *)
(* the auction account.                                                    *)

ToAuction(t) == owner' = [owner EXCEPT ![t] = "auction"]

(* sendTransferExtrinsic: ExtrinsicSubmitter.submit resolves only for a    *)
(* transfer that succeeded.                                                *)
CreateAuction(r, t) ==
  LET started == [IdleRequest EXCEPT !.kind = "create", !.pc = "owner", !.token = t]
      failed == [IdleRequest EXCEPT !.kind = "create", !.pc = "done"]
  IN
  /\ At(r, "idle")
  /\ \/ owner[t] = "user" /\ ToAuction(t) /\ req' = [req EXCEPT ![r] = started]
        /\ told' = told \ {t}
     \/ /\ "watchLost" \in Faults
        /\ owner[t] = "user"
        /\ ToAuction(t) /\ req' = [req EXCEPT ![r] = failed]
        /\ told' = told \cup {t}
     \/ /\ owner[t] # "user" \/ "dispatchFails" \in Faults
        /\ req' = [req EXCEPT ![r] = failed]
        /\ UNCHANGED <<owner, told>>
  /\ UNCHANGED <<calls, made, rows, index, enabled, scan, closer, unsent, late, unread, lost, kept>>

\* The block is inserted (what that does to the escrow is in module Escrow), then the owner read.
CheckOwner(r) ==
  /\ At(r, "owner")
  /\ \/ owner[req[r].token] = "auction" /\ Goes(r, "save") /\ told' = told
     \/ owner[req[r].token] # "auction" /\ Fails(r)
  /\ UNCHANGED <<chain, rows, index, enabled, scan, closer, unsent, late, unread, lost, kept>>

-----------------------------------------------------------------------------
(* createAskAndBroadcast, for one auction and for each one of a mass sale. *)

\* Mutant: a token whose ask cannot be saved is skipped without an error.
SkipTaken(r, t) ==
  LET x == <<r, t>> IN
  /\ \/ req[r].kind = "create" /\ At(r, "save") /\ t = req[r].token
     \/ req[r].kind = "mass" /\ At(r, "next") /\ t \in req[r].todo
  /\ \/ /\ Live(t) = {}
        /\ ask' = [ask EXCEPT ![x] = "active"]
        /\ auction' = [auction EXCEPT ![x] = "active"]
        /\ late' = IF Unscanned(t) THEN late \cup {x} ELSE late
     \/ /\ Live(t) # {}
        /\ UNCHANGED <<ask, auction, late>>
  /\ req' = [req EXCEPT ![r].pc = "exists", ![r].token = t, ![r].todo = @ \ {t}]
  /\ UNCHANGED <<chain, seller, index, enabled, scan, closer, told, unsent, unread, lost, kept>>

CreateAsk(r, t) ==
  LET x == <<r, t>> IN
  /\ \/ req[r].kind = "create" /\ At(r, "save") /\ t = req[r].token
     \/ req[r].kind = "mass" /\ At(r, "next") /\ t \in req[r].todo
  /\ \/ /\ Live(t) = {}
        /\ ask' = [ask EXCEPT ![x] = "active"]
        /\ auction' = [auction EXCEPT ![x] = "active"]
        /\ late' = IF Unscanned(t) THEN late \cup {x} ELSE late
        /\ req' = [req EXCEPT ![r].pc = "exists", ![r].token = t, ![r].todo = @ \ {t}]
        /\ told' = told
     \/ /\ Live(t) # {}
        /\ Fails(r)
        /\ UNCHANGED <<ask, auction, late>>
  /\ UNCHANGED <<chain, seller, index, enabled, scan, closer, unsent, unread, lost, kept>>

\* addSearchIndexIfNotExists: rows of the token are looked for ...
GetIfExists(r) ==
  /\ At(r, "exists")
  /\ IF index[req[r].token] > 0 THEN NextOrDone(r) ELSE Goes(r, "fetch")
  /\ UNCHANGED <<chain, rows, index, enabled, scan, closer, history>>

\* ... and saved when there were none: getTokenInfoItems, saveSearchIndex.
SaveSearchIndex(r) ==
  LET t == req[r].token IN
  /\ At(r, "fetch")
  /\ \/ /\ index' = [index EXCEPT ![t] = @ + 1]
        /\ unread' = unread \ {t}
        /\ NextOrDone(r)
        /\ told' = told
     \/ /\ "fetchFails" \in Faults
        /\ unread' = unread \cup {t}
        /\ Fails(r)
        /\ index' = index
  /\ UNCHANGED <<chain, rows, enabled, scan, closer, unsent, late, lost, kept>>

-----------------------------------------------------------------------------
(* massAuctionSale.                                                        *)

AccountTokens == {t \in Tokens : owner[t] = "admin"}

\* prepareMassSale; then every transfer is submitted.
MassAuctionSale(r) ==
  /\ At(r, "idle")
  /\ enabled
  /\ AccountTokens # {}
  /\ req' = [req EXCEPT ![r] = [IdleRequest EXCEPT !.kind = "mass", !.pc = "transfer",
                                                   !.pool = AccountTokens]]
  /\ UNCHANGED <<chain, rows, index, enabled, scan, closer, history>>

(* A transfer is finalized.  The callback looks at isFinalized only: for a *)
(* transfer that failed in its block an auction is created all the same.   *)
(* After the last one the blocks are saved, and then the auctions.         *)
TransferFinalized(r, t) ==
  /\ At(r, "transfer")
  /\ t \in req[r].pool
  /\ \/ owner[t] = "admin" /\ ToAuction(t) /\ told' = told \ {t} /\ unsent' = unsent
     \/ /\ owner[t] # "admin" \/ "dispatchFails" \in Faults
        /\ unsent' = unsent \cup {<<r, t>>}
        /\ UNCHANGED <<owner, told>>
  /\ req' = [req EXCEPT ![r].pool = @ \ {t}, ![r].todo = @ \cup {t},
                        ![r].pc = IF req[r].pool = {t} THEN "next" ELSE "transfer"]
  /\ UNCHANGED <<calls, made, rows, index, enabled, scan, closer, late, unread, lost, kept>>

\* It never is: the promise waits for one result per token.
TransferDropped(r, t) ==
  /\ "dropped" \in Faults
  /\ At(r, "transfer")
  /\ t \in req[r].pool \ lost
  /\ lost' = lost \cup {t}
  /\ UNCHANGED <<chain, rows, index, enabled, req, scan, closer, told, unsent, late, unread, kept>>

-----------------------------------------------------------------------------
(* massFixPriceSale: three extrinsics per token, whose hashes are all that *)
(* is awaited; the answer is "successfully offered".                       *)

MassFixPriceSale(r) ==
  /\ At(r, "idle")
  /\ enabled
  /\ AccountTokens # {}
  /\ req' = [req EXCEPT ![r] = [IdleRequest EXCEPT !.kind = "fix", !.pc = "done",
                                                   !.pool = AccountTokens]]
  /\ UNCHANGED <<chain, rows, index, enabled, scan, closer, history>>

\* The transfer to the account's mirror; if it fails, the other two fail.
TransferToMirror(r, t) ==
  /\ req[r].kind = "fix"
  /\ t \in req[r].pool
  /\ \/ /\ owner[t] = "admin"
        /\ owner' = [owner EXCEPT ![t] = "mirror"]
        /\ req' = [req EXCEPT ![r].pool = @ \ {t}, ![r].todo = @ \cup {t}]
     \/ /\ owner[t] # "admin" \/ "dispatchFails" \in Faults
        /\ req' = [req EXCEPT ![r].pool = @ \ {t}]
        /\ owner' = owner
  /\ UNCHANGED <<calls, made, rows, index, enabled, scan, closer, history>>

Called(method, t, who) ==
  /\ made < MaxCalls
  /\ made' = made + 1
  /\ calls' = Append(calls, [method |-> method, token |-> t, who |-> who])

\* approve and addAsk.
OfferFromMirror(r, t) ==
  /\ req[r].kind = "fix"
  /\ t \in req[r].todo
  /\ \/ /\ owner[t] = "mirror"
        /\ owner' = [owner EXCEPT ![t] = "contract"]
        /\ Called("addAsk", t, "admin")
     \/ /\ owner[t] # "mirror" \/ "dispatchFails" \in Faults
        /\ UNCHANGED chain
  /\ req' = [req EXCEPT ![r].todo = @ \ {t}]
  /\ UNCHANGED <<rows, index, enabled, scan, closer, history>>

-----------------------------------------------------------------------------
(* search_index/token-info and search_index/update.                        *)

TokenInfo(r, t) ==
  /\ At(r, "idle")
  /\ req' = [req EXCEPT ![r] = IF index[t] > 0 THEN [IdleRequest EXCEPT !.kind = "info", !.pc = "done"]
                               ELSE [IdleRequest EXCEPT !.kind = "info", !.pc = "fetch", !.token = t]]
  /\ UNCHANGED <<chain, rows, index, enabled, scan, closer, history>>

UpdateSearchIndex(r) ==
  LET indexed == {t \in Tokens : index[t] > 0} IN
  /\ At(r, "idle")
  /\ indexed # {}
  /\ req' = [req EXCEPT ![r] = [IdleRequest EXCEPT !.kind = "update", !.pc = "next", !.todo = indexed]]
  /\ UNCHANGED <<chain, rows, index, enabled, scan, closer, history>>

\* Mutant: the whole index is deleted at first.
DeleteAllFirst(r, t) ==
  /\ req[r].kind = "update" /\ At(r, "next") /\ t \in req[r].todo
  /\ index' = [u \in Tokens |-> IF u \in req[r].todo THEN 0 ELSE index[u]]
  /\ req' = [req EXCEPT ![r].pc = "exists", ![r].token = t, ![r].todo = @ \ {t}]
  /\ UNCHANGED <<chain, rows, enabled, scan, closer, history>>

\* The rows of a token are deleted and added anew.
UpdateToken(r, t) ==
  /\ req[r].kind = "update" /\ At(r, "next") /\ t \in req[r].todo
  /\ index' = [index EXCEPT ![t] = 0]
  /\ req' = [req EXCEPT ![r].pc = "exists", ![r].token = t, ![r].todo = @ \ {t}]
  /\ UNCHANGED <<chain, rows, enabled, scan, closer, history>>

-----------------------------------------------------------------------------
(* The contract: addAsk, cancelAsk and buyKSM (module MarketContract).     *)

CallAddAsk(t) ==
  /\ owner[t] = "user"
  /\ owner' = [owner EXCEPT ![t] = "contract"]
  /\ Called("addAsk", t, "user")
  /\ UNCHANGED <<rows, index, enabled, req, scan, closer, history>>

\* A token leaves the contract to the seller or to a buyer.
CallTake(t, method) ==
  /\ owner[t] = "contract"
  /\ owner' = [owner EXCEPT ![t] = "user"]
  /\ Called(method, t, "user")
  /\ UNCHANGED <<rows, index, enabled, req, scan, closer, history>>

-----------------------------------------------------------------------------
(* The Unique escrow scans the calls in their order.                       *)

WithAsks(S, status) == [x \in Rows |-> IF x \in S THEN status ELSE ask[x]]

(* processAddAsk: what it takes for an older ask of the token is cancelled,*)
(* be it an auction's; then the token is indexed and the ask registered.   *)
ProcessAddAsk ==
  /\ scan.pc = "idle" /\ calls # <<>> /\ Head(calls).method = "addAsk"
  /\ calls' = Tail(calls)
  /\ \/ /\ enabled
        /\ ask' = WithAsks(Live(Head(calls).token), "cancelled")
        /\ scan' = [pc |-> "exists", token |-> Head(calls).token, who |-> Head(calls).who]
     \/ ~enabled /\ UNCHANGED <<ask, scan>>
  /\ UNCHANGED <<owner, made, seller, auction, index, enabled, req, closer, history>>

ScanExists ==
  /\ scan.pc = "exists"
  /\ scan' = [scan EXCEPT !.pc = IF index[scan.token] > 0 THEN "register" ELSE "fetch"]
  /\ UNCHANGED <<chain, rows, index, enabled, req, closer, history>>

\* An error ends the scan of the block: the ask is never registered.
ScanFetch ==
  /\ scan.pc = "fetch"
  /\ \/ /\ index' = [index EXCEPT ![scan.token] = @ + 1]
        /\ unread' = unread \ {scan.token}
        /\ scan' = [scan EXCEPT !.pc = "register"]
     \/ "fetchFails" \in Faults /\ scan' = IdleScan /\ UNCHANGED <<index, unread>>
  /\ UNCHANGED <<chain, rows, enabled, req, closer, told, unsent, late, lost, kept>>

\* registerAsk, unless it violates the unique index.
RegisterAsk ==
  LET x == <<Contract, scan.token>> IN
  /\ scan.pc = "register"
  /\ \/ /\ Live(scan.token) = {}
        /\ ask' = [ask EXCEPT ![x] = "active"]
        /\ seller' = [seller EXCEPT ![scan.token] = scan.who]
     \/ Live(scan.token) # {} /\ UNCHANGED <<ask, seller>>
  /\ scan' = IdleScan
  /\ UNCHANGED <<chain, auction, index, enabled, req, closer, history>>

ProcessCancelAsk ==
  /\ scan.pc = "idle" /\ calls # <<>> /\ Head(calls).method = "cancelAsk"
  /\ calls' = Tail(calls)
  /\ ask' = IF enabled THEN WithAsks(Live(Head(calls).token), "cancelled") ELSE ask
  /\ UNCHANGED <<owner, made, seller, auction, index, enabled, req, scan, closer, history>>

\* processBuyKSM: an ask removed by the administrator stays as it is.
ProcessBuyKSM ==
  /\ scan.pc = "idle" /\ calls # <<>> /\ Head(calls).method = "buyKSM"
  /\ calls' = Tail(calls)
  /\ ask' = WithAsks({x \in RowsOf(Head(calls).token) : ask[x] = "active"}, "bought")
  /\ UNCHANGED <<owner, made, seller, auction, index, enabled, req, scan, closer, history>>

-----------------------------------------------------------------------------
(* The ends of auctions (module Auction).                                  *)

\* Mutant: the row of auctions is forgotten.
CancelAskOnly(x) ==
  /\ auction[x] = "active" /\ ask[x] = "active"
  /\ ask' = [ask EXCEPT ![x] = "cancelled"]
  /\ closer' = [closer EXCEPT ![x] = "return"]
  /\ UNCHANGED <<chain, seller, auction, index, enabled, req, scan, history>>

\* cancelInDatabase; the token goes back afterwards.
CancelAuction(x) ==
  /\ auction[x] = "active" /\ ask[x] = "active"
  /\ ask' = [ask EXCEPT ![x] = "cancelled"]
  /\ auction' = [auction EXCEPT ![x] = "ended"]
  /\ closer' = [closer EXCEPT ![x] = "return"]
  /\ UNCHANGED <<chain, seller, index, enabled, req, scan, history>>

(* stopAt is reached, or massAuctionCancel set it.  Without a bidder and    *)
(* with a single one the ask is cancelled before the token is sent.        *)
CloseAuction(x) ==
  /\ auction[x] = "active"
  /\ \/ /\ ask' = [ask EXCEPT ![x] = "cancelled"]
        /\ auction' = [auction EXCEPT ![x] = "ended"]
        /\ \E what \in {"return", "sell"} : closer' = [closer EXCEPT ![x] = what]
     \/ /\ auction' = [auction EXCEPT ![x] = "withdrawing"]
        /\ closer' = [closer EXCEPT ![x] = "sell"]
        /\ ask' = ask
  /\ UNCHANGED <<chain, seller, index, enabled, req, scan, history>>

Seller(x) == IF x[1] = Contract THEN seller[x[2]]
             ELSE IF req[x[1]].kind = "mass" THEN "admin" ELSE "user"

(* sendTokenToWinner, sendTokenBackToOwner: an error is logged and nothing  *)
(* else; the seller is paid or the cancellation answered all the same.     *)
Deliver(x) ==
  LET t == x[2] IN
  /\ closer[x] \in {"return", "sell"}
  /\ \/ /\ owner[t] = "auction"
        /\ owner' = [owner EXCEPT ![t] = IF closer[x] = "sell" THEN "user" ELSE Seller(x)]
        /\ kept' = kept
     \/ /\ owner[t] # "auction" \/ "dispatchFails" \in Faults
        /\ kept' = kept \cup {t}
        /\ owner' = owner
  /\ closer' = [closer EXCEPT ![x] = IF closer[x] = "sell" THEN "settle" ELSE "idle"]
  /\ UNCHANGED <<calls, made, rows, index, enabled, req, scan, told, unsent, late, unread, lost>>

\* The seller is paid and the ask bought; without the payment both stay as they are.
Settle(x) ==
  /\ closer[x] = "settle"
  /\ \/ /\ ask' = [ask EXCEPT ![x] = "bought"]
        /\ auction' = [auction EXCEPT ![x] = "ended"]
     \/ "payFails" \in Faults /\ UNCHANGED <<ask, auction>>
  /\ closer' = [closer EXCEPT ![x] = "idle"]
  /\ UNCHANGED <<chain, seller, index, enabled, req, scan, history>>

-----------------------------------------------------------------------------
(* The administrator.                                                      *)

\* Mutant: the query does not exclude the asks of auctions.
CancelEveryAsk ==
  LET S == {x \in Rows : ask[x] = "active"} IN
  /\ S # {}
  /\ ask' = WithAsks(S, "removed_by_admin")
  /\ UNCHANGED <<chain, seller, auction, index, enabled, req, scan, closer, history>>

\* massFixPriceCancel: active asks without an auction, but for the main sale account's.
MassFixPriceCancel ==
  LET S == {x \in {Contract} \X Tokens : ask[x] = "active" /\ seller[x[2]] # "admin"} IN
  /\ S # {}
  /\ ask' = WithAsks(S, "removed_by_admin")
  /\ UNCHANGED <<chain, seller, auction, index, enabled, req, scan, closer, history>>

EnableById == enabled' = TRUE
DisableById == enabled' = FALSE

-----------------------------------------------------------------------------
ListingInit ==
  /\ owner \in [Tokens -> {"user", "admin", "other"}]
  /\ calls = <<>> /\ made = 0
  /\ ask = [x \in Rows |-> "none"]
  /\ seller = [t \in Tokens |-> "user"]
  /\ auction = [x \in Rows |-> "none"]
  /\ index = [t \in Tokens |-> 0]
  /\ enabled = TRUE
  /\ req = [r \in Requests |-> IdleRequest]
  /\ scan = IdleScan
  /\ closer = [x \in Rows |-> "idle"]
  /\ told = {} /\ unsent = {} /\ late = {} /\ unread = {} /\ lost = {} /\ kept = {}

Ask(r) ==
  /\ Cardinality({q \in Requests : ~At(q, "idle")})
       + Cardinality({t \in Tokens : owner[t] # "other"}) < MaxActors
  /\ \/ \E t \in Tokens : owner[t] # "other" /\ (CreateAuction(r, t) \/ TokenInfo(r, t))
     \/ MassAuctionSale(r) \/ MassFixPriceSale(r) \/ UpdateSearchIndex(r)

Handle(r) ==
  \/ CheckOwner(r) \/ GetIfExists(r) \/ SaveSearchIndex(r)
  \/ \E t \in Tokens : CreateAsk(r, t) \/ UpdateToken(r, t)

Users == \E t \in Tokens : CallAddAsk(t) \/ CallTake(t, "cancelAsk") \/ CallTake(t, "buyKSM")

Scan == \/ ProcessAddAsk \/ ScanExists \/ ScanFetch \/ RegisterAsk
        \/ ProcessCancelAsk \/ ProcessBuyKSM

Auctions == \E x \in Requests \X Tokens :
              CancelAuction(x) \/ CloseAuction(x) \/ Deliver(x) \/ Settle(x)

Administrate ==
  \/ MassFixPriceCancel
  \/ (EnableById \/ DisableById) /\ UNCHANGED <<chain, rows, index, req, scan, closer, history>>

ListingNext ==
  \/ \E r \in Requests :
       \/ Ask(r) \/ Handle(r)
       \/ \E t \in Tokens : \/ TransferFinalized(r, t) \/ TransferDropped(r, t)
                            \/ TransferToMirror(r, t) \/ OfferFromMirror(r, t)
  \/ Users \/ Scan \/ Auctions \/ Administrate

ListingSpec == ListingInit /\ [][ListingNext]_listingVars

-----------------------------------------------------------------------------
(* Properties.                                                             *)

Phantom(t) == \E x \in unsent : x[2] = t

(* An auction that runs has its token on the auction account, whichever of *)
(* create_auction, mass sales and closings overlap.  The exception is the  *)
(* mass sale's: it creates auctions for transfers that failed, and such an *)
(* auction, when it ends, also gives away another auction's token.         *)
AuctionBacked ==
  \A x \in Rows : auction[x] = "active" => owner[x[2]] = "auction" \/ Phantom(x[2])

(* An auction that runs can be bid on and cancelled: its ask is active.    *)
(* Only the escrow breaks this, and only for a token whose calls it had not*)
(* scanned when the auction was created: processAddAsk, processCancelAsk   *)
(* and processBuyKSM take the auction's ask for the contract's.            *)
AuctionHasAsk ==
  \A x \in Rows : auction[x] = "active" => ask[x] = "active" \/ x \in late \/ Phantom(x[2])

WorksOn(r, t) == /\ req[r].kind \in {"create", "mass"}
                 /\ req[r].pc # "done"
                 /\ t \in {req[r].token} \cup req[r].pool \cup req[r].todo

\* A mass sale that waits for ever: not every transfer is finalized one day.
Hangs(r) == req[r].pool \cap lost # {}

(* No token is left on the auction account without anybody being told: it  *)
(* has an auction whose end has not sent it away yet, or its request is    *)
(* still at work, or was answered with an error.  The exceptions: one      *)
(* dropped transfer of a mass sale, and no auction is created for the      *)
(* transferred ones; an auction that a mass sale created for a failed      *)
(* transfer; and a failed transfer at the end of an auction, whose error is*)
(* only logged.                                                            *)
NothingStranded ==
  \A t \in Tokens :
    owner[t] = "auction" =>
      \/ \E x \in RowsOf(t) : auction[x] = "active" \/ closer[x] \in {"return", "sell"}
      \/ \E r \in Requests : WorksOn(r, t) /\ (Hangs(r) => req[r].kind = "mass" /\ t \in req[r].todo)
      \/ t \in told
      \/ t \in kept
      \/ Phantom(t)

(* An offer can be found by text, attribute and collection: its token is in*)
(* the index, unless the index is just being written or the last attempt to*)
(* read the token failed, between the delete and the save of an update too.*)
OffersIndexed ==
  \A x \in Rows :
    ask[x] \in LiveStatus /\ index[x[2]] = 0 =>
      \/ x[2] \in unread
      \/ \E r \in Requests : req[r].token = x[2] /\ req[r].pc \in {"exists", "fetch"}
=============================================================================
