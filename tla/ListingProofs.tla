--------------------------- MODULE ListingProofs ---------------------------
(***************************************************************************)
(* What listing tokens promises, for any tokens, requests, bounds and      *)
(* faults: an auction has its token and its ask, no token is left behind   *)
(* and what is offered is indexed.                                         *)
(***************************************************************************)
EXTENDS Listing, TLAPS

-----------------------------------------------------------------------------
(* Types.                                                                  *)

Kinds == {"none", "create", "mass", "fix", "info", "update"}
Places == {"idle", "owner", "save", "exists", "fetch", "transfer", "next", "done"}
RequestType == [kind : Kinds, pc : Places, token : Tokens \cup {NoToken},
                pool : SUBSET Tokens, todo : SUBSET Tokens]
CallType == [method : {"addAsk", "cancelAsk", "buyKSM"}, token : Tokens, who : {"user", "admin"}]
ScanType == [pc : {"idle", "exists", "fetch", "register"}, token : Tokens \cup {NoToken},
             who : {"user", "admin"}]

ListingTypes ==
  /\ owner \in [Tokens -> Owners]
  /\ calls \in Seq(CallType)
  /\ ask \in [Rows -> {"none", "active", "cancelled", "bought", "removed_by_admin"}]
  /\ auction \in [Rows -> {"none", "active", "withdrawing", "ended"}]
  /\ closer \in [Rows -> {"idle", "return", "sell", "settle"}]
  /\ index \in [Tokens -> Nat]
  /\ req \in [Requests -> RequestType]
  /\ scan \in ScanType

-----------------------------------------------------------------------------
(* What a step makes of the request that takes it.                         *)

Becomes(r, kind, pc, token, pool, todo) ==
  /\ req' \in [Requests -> RequestType]
  /\ \A q \in Requests \ {r} : req'[q] = req[q]
  /\ req'[r].kind = kind
  /\ req'[r].pc = pc
  /\ req'[r].token = token
  /\ req'[r].pool = pool
  /\ req'[r].todo = todo

\* A request that begins.
LEMMA Starts ==
  ASSUME req \in [Requests -> RequestType], NEW r \in Requests, NEW start \in RequestType,
         req' = [req EXCEPT ![r] = start]
  PROVE  Becomes(r, start.kind, start.pc, start.token, start.pool, start.todo)
BY DEF Becomes

\* A request that only goes on keeps its work.
LEMMA GoesOn ==
  ASSUME req \in [Requests -> RequestType], NEW r \in Requests, NEW p \in Places, Goes(r, p)
  PROVE  Becomes(r, req[r].kind, p, req[r].token, req[r].pool, req[r].todo)
BY DEF Goes, Becomes, RequestType

\* A request takes a token from its list.
LEMMA TakesUp ==
  ASSUME req \in [Requests -> RequestType], NEW r \in Requests, NEW t \in Tokens,
         req' = [req EXCEPT ![r].pc = "exists", ![r].token = t, ![r].todo = @ \ {t}]
  PROVE  Becomes(r, req[r].kind, "exists", t, req[r].pool, req[r].todo \ {t})
BY DEF Becomes, RequestType, Places

\* A transfer is over and another one may follow.
LEMMA PutsOff ==
  ASSUME req \in [Requests -> RequestType], NEW r \in Requests, NEW t \in Tokens,
         req' = [req EXCEPT ![r].pool = @ \ {t}, ![r].todo = @ \cup {t}]
  PROVE  Becomes(r, req[r].kind, req[r].pc, req[r].token, req[r].pool \ {t}, req[r].todo \cup {t})
BY DEF Becomes, RequestType

\* An error ends a request, and whoever asked for a token's auction is told.
LEMMA FailsDoes ==
  ASSUME req \in [Requests -> RequestType], NEW r \in Requests, Fails(r)
  PROVE  /\ Becomes(r, req[r].kind, "done", NoToken, req[r].pool, {})
         /\ told \subseteq told'
         /\ req[r].kind \in {"create", "mass"} => {req[r].token} \cup req[r].todo \subseteq told'
<1>1. Becomes(r, req[r].kind, "done", NoToken, req[r].pool, {})
  BY DEF Fails, Finished, Becomes, RequestType, Places
<1>2. /\ told \subseteq told'
      /\ req[r].kind \in {"create", "mass"} => {req[r].token} \cup req[r].todo \subseteq told'
  BY DEF Fails
<1> QED BY <1>1, <1>2

\* A request that is done with one token has the others still to do.
LEMMA NextOrDoneDoes ==
  ASSUME req \in [Requests -> RequestType], NEW r \in Requests, NextOrDone(r)
  PROVE  \/ req[r].todo = {} /\ Becomes(r, req[r].kind, "done", NoToken, req[r].pool, {})
         \/ Becomes(r, req[r].kind, "next", NoToken, req[r].pool, req[r].todo)
<1>1. CASE req[r].todo = {}
  BY <1>1 DEF NextOrDone, Finished, Becomes, RequestType, Places
<1>2. CASE req[r].todo # {}
  <2>1. req' = [req EXCEPT ![r].pc = "next", ![r].token = NoToken]
    BY <1>2 DEF NextOrDone
  <2>2. Becomes(r, req[r].kind, "next", NoToken, req[r].pool, req[r].todo)
    BY <2>1 DEF Becomes, RequestType, Places
  <2> QED BY <2>2
<1> QED BY <1>1, <1>2

\* An auction is asked for: its token is transferred, or the request is over.
LEMMA CreateAuctionDoes ==
  ASSUME req \in [Requests -> RequestType], NEW r \in Requests, NEW t \in Tokens,
         CreateAuction(r, t)
  PROVE  /\ req[r].pc = "idle"
         /\ \/ /\ Becomes(r, "create", "owner", t, {}, {})
               /\ owner[t] = "user" /\ ToAuction(t) /\ told' = told \ {t}
            \/ /\ Becomes(r, "create", "done", NoToken, {}, {})
               /\ owner[t] = "user" /\ ToAuction(t) /\ told' = told \cup {t}
            \/ /\ Becomes(r, "create", "done", NoToken, {}, {})
               /\ owner' = owner /\ told' = told
         /\ UNCHANGED <<calls, made, rows, index, enabled, scan, closer, unsent, late, unread, lost, kept>>
<1> DEFINE started == [IdleRequest EXCEPT !.kind = "create", !.pc = "owner", !.token = t]
           failed == [IdleRequest EXCEPT !.kind = "create", !.pc = "done"]
<1>1. /\ started \in RequestType /\ started.kind = "create" /\ started.pc = "owner"
      /\ started.token = t /\ started.pool = {} /\ started.todo = {}
  BY DEF RequestType, Places, Kinds, IdleRequest
<1>2. /\ failed \in RequestType /\ failed.kind = "create" /\ failed.pc = "done"
      /\ failed.token = NoToken /\ failed.pool = {} /\ failed.todo = {}
  BY DEF RequestType, Places, Kinds, IdleRequest
<1>3. /\ req[r].pc = "idle"
      /\ \/ req' = [req EXCEPT ![r] = started] /\ owner[t] = "user" /\ ToAuction(t)
            /\ told' = told \ {t}
         \/ req' = [req EXCEPT ![r] = failed] /\ owner[t] = "user" /\ ToAuction(t)
            /\ told' = told \cup {t}
         \/ req' = [req EXCEPT ![r] = failed] /\ owner' = owner /\ told' = told
      /\ UNCHANGED <<calls, made, rows, index, enabled, scan, closer, unsent, late, unread, lost, kept>>
  BY DEF CreateAuction, At
<1> HIDE DEF started, failed
<1>4. req' = [req EXCEPT ![r] = started] => Becomes(r, "create", "owner", t, {}, {})
  BY <1>1, Starts
<1>5. req' = [req EXCEPT ![r] = failed] => Becomes(r, "create", "done", NoToken, {}, {})
  BY <1>2, Starts
<1> QED BY <1>3, <1>4, <1>5

LEMMA CheckOwnerDoes ==
  ASSUME req \in [Requests -> RequestType], NEW r \in Requests, CheckOwner(r)
  PROVE  /\ req[r].pc = "owner"
         /\ \/ /\ Becomes(r, req[r].kind, "save", req[r].token, req[r].pool, req[r].todo)
               /\ told' = told
            \/ /\ Becomes(r, req[r].kind, "done", NoToken, req[r].pool, {})
               /\ told \subseteq told'
               /\ req[r].kind \in {"create", "mass"} => {req[r].token} \cup req[r].todo \subseteq told'
         /\ UNCHANGED <<chain, rows, index, enabled, scan, closer, unsent, late, unread, lost, kept>>
<1>1. CASE Goes(r, "save") /\ told' = told
  BY <1>1, GoesOn DEF CheckOwner, At, Places
<1>2. CASE Fails(r)
  BY <1>2, FailsDoes DEF CheckOwner, At
<1> QED BY <1>1, <1>2 DEF CheckOwner

\* The ask and its auction are inserted, or the unique index refuses them.
LEMMA CreateAskDoes ==
  ASSUME req \in [Requests -> RequestType], NEW r \in Requests, NEW t \in Tokens, CreateAsk(r, t)
  PROVE  /\ \/ req[r].kind = "create" /\ req[r].pc = "save" /\ t = req[r].token
            \/ req[r].kind = "mass" /\ req[r].pc = "next" /\ t \in req[r].todo
         /\ \/ /\ ask' = [ask EXCEPT ![<<r, t>>] = "active"]
               /\ auction' = [auction EXCEPT ![<<r, t>>] = "active"]
               /\ late' = IF Unscanned(t) THEN late \cup {<<r, t>>} ELSE late
               /\ Becomes(r, req[r].kind, "exists", t, req[r].pool, req[r].todo \ {t})
               /\ told' = told
            \/ /\ UNCHANGED <<ask, auction, late>>
               /\ Becomes(r, req[r].kind, "done", NoToken, req[r].pool, {})
               /\ told \subseteq told'
               /\ {req[r].token} \cup req[r].todo \subseteq told'
         /\ UNCHANGED <<chain, seller, index, enabled, scan, closer, unsent, unread, lost, kept>>
<1>1. ASSUME req' = [req EXCEPT ![r].pc = "exists", ![r].token = t, ![r].todo = @ \ {t}]
      PROVE  Becomes(r, req[r].kind, "exists", t, req[r].pool, req[r].todo \ {t})
  BY <1>1, TakesUp
<1>2. \/ req[r].kind = "create" /\ req[r].pc = "save" /\ t = req[r].token
      \/ req[r].kind = "mass" /\ req[r].pc = "next" /\ t \in req[r].todo
  BY DEF CreateAsk, At
<1>3. Fails(r) => /\ Becomes(r, req[r].kind, "done", NoToken, req[r].pool, {})
                  /\ told \subseteq told'
                  /\ {req[r].token} \cup req[r].todo \subseteq told'
  BY <1>2, FailsDoes
<1>4. /\ \/ /\ ask' = [ask EXCEPT ![<<r, t>>] = "active"]
            /\ auction' = [auction EXCEPT ![<<r, t>>] = "active"]
            /\ late' = IF Unscanned(t) THEN late \cup {<<r, t>>} ELSE late
            /\ req' = [req EXCEPT ![r].pc = "exists", ![r].token = t, ![r].todo = @ \ {t}]
            /\ told' = told
         \/ Fails(r) /\ UNCHANGED <<ask, auction, late>>
      /\ UNCHANGED <<chain, seller, index, enabled, scan, closer, unsent, unread, lost, kept>>
  BY DEF CreateAsk
<1> QED BY <1>1, <1>2, <1>3, <1>4

LEMMA GetIfExistsDoes ==
  ASSUME req \in [Requests -> RequestType], NEW r \in Requests, GetIfExists(r)
  PROVE  /\ req[r].pc = "exists"
         /\ \/ index[req[r].token] > 0 /\ req[r].todo = {}
               /\ Becomes(r, req[r].kind, "done", NoToken, req[r].pool, {})
            \/ index[req[r].token] > 0
               /\ Becomes(r, req[r].kind, "next", NoToken, req[r].pool, req[r].todo)
            \/ Becomes(r, req[r].kind, "fetch", req[r].token, req[r].pool, req[r].todo)
         /\ UNCHANGED <<chain, rows, index, enabled, scan, closer, history>>
<1>1. /\ req[r].pc = "exists"
      /\ (index[req[r].token] > 0 /\ NextOrDone(r)) \/ Goes(r, "fetch")
      /\ UNCHANGED <<chain, rows, index, enabled, scan, closer, history>>
  BY DEF GetIfExists, At
<1>2. Goes(r, "fetch") => Becomes(r, req[r].kind, "fetch", req[r].token, req[r].pool, req[r].todo)
  BY GoesOn DEF Places
<1> QED BY <1>1, <1>2, NextOrDoneDoes

LEMMA SaveSearchIndexDoes ==
  ASSUME req \in [Requests -> RequestType], NEW r \in Requests, SaveSearchIndex(r)
  PROVE  /\ req[r].pc = "fetch"
         /\ \/ /\ index' = [index EXCEPT ![req[r].token] = @ + 1]
               /\ unread' = unread \ {req[r].token}
               /\ told' = told
               /\ \/ /\ req[r].todo = {}
                     /\ Becomes(r, req[r].kind, "done", NoToken, req[r].pool, {})
                  \/ Becomes(r, req[r].kind, "next", NoToken, req[r].pool, req[r].todo)
            \/ /\ index' = index
               /\ unread' = unread \cup {req[r].token}
               /\ Becomes(r, req[r].kind, "done", NoToken, req[r].pool, {})
               /\ told \subseteq told'
               /\ req[r].kind \in {"create", "mass"} => {req[r].token} \cup req[r].todo \subseteq told'
         /\ UNCHANGED <<chain, rows, enabled, scan, closer, unsent, late, lost, kept>>
<1>1. /\ req[r].pc = "fetch"
      /\ \/ /\ index' = [index EXCEPT ![req[r].token] = @ + 1]
            /\ unread' = unread \ {req[r].token}
            /\ told' = told
            /\ NextOrDone(r)
         \/ /\ index' = index
            /\ unread' = unread \cup {req[r].token}
            /\ Fails(r)
      /\ UNCHANGED <<chain, rows, enabled, scan, closer, unsent, late, lost, kept>>
  BY DEF SaveSearchIndex, At
<1> QED BY <1>1, NextOrDoneDoes, FailsDoes

\* The requests that begin with a list of tokens, or with one that is only indexed.
LEMMA BeginsDoes ==
  ASSUME req \in [Requests -> RequestType], NEW r \in Requests, NEW t \in Tokens,
         MassAuctionSale(r) \/ MassFixPriceSale(r) \/ UpdateSearchIndex(r) \/ TokenInfo(r, t)
  PROVE  /\ req[r].pc = "idle"
         /\ \/ Becomes(r, "mass", "transfer", NoToken, AccountTokens, {})
            \/ Becomes(r, "fix", "done", NoToken, AccountTokens, {})
            \/ \E S \in SUBSET Tokens : Becomes(r, "update", "next", NoToken, {}, S)
            \/ Becomes(r, "info", "done", NoToken, {}, {})
            \/ Becomes(r, "info", "fetch", t, {}, {})
         /\ UNCHANGED <<chain, rows, index, enabled, scan, closer, history>>
<1> DEFINE indexed == {u \in Tokens : index[u] > 0}
           mass == [IdleRequest EXCEPT !.kind = "mass", !.pc = "transfer", !.pool = AccountTokens]
           fix == [IdleRequest EXCEPT !.kind = "fix", !.pc = "done", !.pool = AccountTokens]
           update == [IdleRequest EXCEPT !.kind = "update", !.pc = "next", !.todo = indexed]
           known == [IdleRequest EXCEPT !.kind = "info", !.pc = "done"]
           new == [IdleRequest EXCEPT !.kind = "info", !.pc = "fetch", !.token = t]
<1>1. AccountTokens \in SUBSET Tokens /\ indexed \in SUBSET Tokens
  BY DEF AccountTokens
<1>2. /\ req[r].pc = "idle"
      /\ \/ req' = [req EXCEPT ![r] = mass]
         \/ req' = [req EXCEPT ![r] = fix]
         \/ req' = [req EXCEPT ![r] = update]
         \/ req' = [req EXCEPT ![r] = known]
         \/ req' = [req EXCEPT ![r] = new]
      /\ UNCHANGED <<chain, rows, index, enabled, scan, closer, history>>
  BY DEF MassAuctionSale, MassFixPriceSale, UpdateSearchIndex, TokenInfo, At
<1> HIDE DEF indexed
<1>3. /\ mass \in RequestType /\ mass.kind = "mass" /\ mass.pc = "transfer"
      /\ mass.token = NoToken /\ mass.pool = AccountTokens /\ mass.todo = {}
  BY <1>1 DEF RequestType, Places, Kinds, IdleRequest
<1>4. /\ fix \in RequestType /\ fix.kind = "fix" /\ fix.pc = "done"
      /\ fix.token = NoToken /\ fix.pool = AccountTokens /\ fix.todo = {}
  BY <1>1 DEF RequestType, Places, Kinds, IdleRequest
<1>5. /\ update \in RequestType /\ update.kind = "update" /\ update.pc = "next"
      /\ update.token = NoToken /\ update.pool = {} /\ update.todo = indexed
  BY <1>1 DEF RequestType, Places, Kinds, IdleRequest
<1>6. /\ known \in RequestType /\ known.kind = "info" /\ known.pc = "done"
      /\ known.token = NoToken /\ known.pool = {} /\ known.todo = {}
  BY DEF RequestType, Places, Kinds, IdleRequest
<1>7. /\ new \in RequestType /\ new.kind = "info" /\ new.pc = "fetch"
      /\ new.token = t /\ new.pool = {} /\ new.todo = {}
  BY DEF RequestType, Places, Kinds, IdleRequest
<1> HIDE DEF mass, fix, update, known, new
<1>8. req' = [req EXCEPT ![r] = mass] => Becomes(r, "mass", "transfer", NoToken, AccountTokens, {})
  BY <1>3, Starts
<1>9. req' = [req EXCEPT ![r] = fix] => Becomes(r, "fix", "done", NoToken, AccountTokens, {})
  BY <1>4, Starts
<1>10. req' = [req EXCEPT ![r] = update] => Becomes(r, "update", "next", NoToken, {}, indexed)
  BY <1>5, Starts
<1>11. req' = [req EXCEPT ![r] = known] => Becomes(r, "info", "done", NoToken, {}, {})
  BY <1>6, Starts
<1>12. req' = [req EXCEPT ![r] = new] => Becomes(r, "info", "fetch", t, {}, {})
  BY <1>7, Starts
<1> QED BY <1>1, <1>2, <1>8, <1>9, <1>10, <1>11, <1>12

\* A token is indexed anew.
LEMMA UpdateTokenDoes ==
  ASSUME req \in [Requests -> RequestType], NEW r \in Requests, NEW t \in Tokens, UpdateToken(r, t)
  PROVE  /\ req[r].kind = "update"
         /\ Becomes(r, req[r].kind, "exists", t, req[r].pool, req[r].todo \ {t})
         /\ index' = [index EXCEPT ![t] = 0]
         /\ UNCHANGED <<chain, rows, enabled, scan, closer, history>>
<1>1. /\ req[r].kind = "update"
      /\ req' = [req EXCEPT ![r].pc = "exists", ![r].token = t, ![r].todo = @ \ {t}]
      /\ index' = [index EXCEPT ![t] = 0]
      /\ UNCHANGED <<chain, rows, enabled, scan, closer, history>>
  BY DEF UpdateToken
<1>2. Becomes(r, req[r].kind, "exists", t, req[r].pool, req[r].todo \ {t})
  BY <1>1, TakesUp
<1> QED BY <1>1, <1>2

\* A transfer of a mass sale ends: with the token moved, or noted in unsent.
LEMMA TransferDoes ==
  ASSUME req \in [Requests -> RequestType], NEW r \in Requests, NEW t \in Tokens,
         TransferFinalized(r, t)
  PROVE  /\ req[r].pc = "transfer"
         /\ t \in req[r].pool
         /\ \/ Becomes(r, req[r].kind, "next", req[r].token, req[r].pool \ {t}, req[r].todo \cup {t})
               /\ req[r].pool = {t}
            \/ Becomes(r, req[r].kind, "transfer", req[r].token, req[r].pool \ {t}, req[r].todo \cup {t})
         /\ \/ owner[t] = "admin" /\ ToAuction(t) /\ told' = told \ {t} /\ unsent' = unsent
            \/ unsent' = unsent \cup {<<r, t>>} /\ owner' = owner /\ told' = told
         /\ UNCHANGED <<calls, made, rows, index, enabled, scan, closer, late, unread, lost, kept>>
<1>1. /\ req[r].pc = "transfer"
      /\ t \in req[r].pool
      /\ req' = [req EXCEPT ![r].pool = @ \ {t}, ![r].todo = @ \cup {t},
                            ![r].pc = IF req[r].pool = {t} THEN "next" ELSE "transfer"]
      /\ \/ owner[t] = "admin" /\ ToAuction(t) /\ told' = told \ {t} /\ unsent' = unsent
         \/ unsent' = unsent \cup {<<r, t>>} /\ owner' = owner /\ told' = told
      /\ UNCHANGED <<calls, made, rows, index, enabled, scan, closer, late, unread, lost, kept>>
  BY DEF TransferFinalized, At
<1>2. CASE req[r].pool = {t}
  <2>1. req' = [req EXCEPT ![r].pool = @ \ {t}, ![r].todo = @ \cup {t}, ![r].pc = "next"]
    BY <1>1, <1>2
  <2>2. Becomes(r, req[r].kind, "next", req[r].token, req[r].pool \ {t}, req[r].todo \cup {t})
    BY <2>1 DEF Becomes, RequestType, Places
  <2> QED BY <1>1, <1>2, <2>2
<1>3. CASE req[r].pool # {t}
  <2>1. req' = [req EXCEPT ![r].pool = @ \ {t}, ![r].todo = @ \cup {t}, ![r].pc = "transfer"]
    BY <1>1, <1>3
  <2>2. Becomes(r, req[r].kind, "transfer", req[r].token, req[r].pool \ {t}, req[r].todo \cup {t})
    BY <2>1 DEF Becomes, RequestType, Places
  <2> QED BY <1>1, <2>2
<1> QED BY <1>2, <1>3

\* A mass sale at a fixed price moves its tokens past the auction account.
LEMMA FixPriceDoes ==
  ASSUME req \in [Requests -> RequestType], NEW r \in Requests, NEW t \in Tokens,
         TransferToMirror(r, t) \/ OfferFromMirror(r, t)
  PROVE  /\ req[r].kind = "fix"
         /\ \E pool, todo \in SUBSET Tokens :
              Becomes(r, req[r].kind, req[r].pc, req[r].token, pool, todo)
         /\ \/ owner' = owner /\ calls' = calls
            \/ /\ owner[t] = "admin" /\ owner' = [owner EXCEPT ![t] = "mirror"]
               /\ calls' = calls
            \/ /\ owner[t] = "mirror" /\ owner' = [owner EXCEPT ![t] = "contract"]
               /\ calls' = Append(calls, [method |-> "addAsk", token |-> t, who |-> "admin"])
         /\ UNCHANGED <<rows, index, enabled, scan, closer, history>>
<1>1. CASE TransferToMirror(r, t)
  <2>1. req' = [req EXCEPT ![r].pool = @ \ {t}, ![r].todo = @ \cup {t}]
          => Becomes(r, req[r].kind, req[r].pc, req[r].token, req[r].pool \ {t}, req[r].todo \cup {t})
    BY PutsOff
  <2>2. req' = [req EXCEPT ![r].pool = @ \ {t}]
          => Becomes(r, req[r].kind, req[r].pc, req[r].token, req[r].pool \ {t}, req[r].todo)
    BY DEF Becomes, RequestType
  <2>3. /\ req[r].kind = "fix"
        /\ \/ req' = [req EXCEPT ![r].pool = @ \ {t}, ![r].todo = @ \cup {t}]
           \/ req' = [req EXCEPT ![r].pool = @ \ {t}]
        /\ \/ owner' = owner
           \/ owner[t] = "admin" /\ owner' = [owner EXCEPT ![t] = "mirror"]
        /\ calls' = calls
        /\ UNCHANGED <<rows, index, enabled, scan, closer, history>>
    BY <1>1 DEF TransferToMirror
  <2>4. /\ req[r].pool \ {t} \in SUBSET Tokens /\ req[r].todo \cup {t} \in SUBSET Tokens
        /\ req[r].todo \in SUBSET Tokens
    BY DEF RequestType
  <2> QED BY <2>1, <2>2, <2>3, <2>4
<1>2. CASE OfferFromMirror(r, t)
  <2>1. req' = [req EXCEPT ![r].todo = @ \ {t}]
          => Becomes(r, req[r].kind, req[r].pc, req[r].token, req[r].pool, req[r].todo \ {t})
    BY DEF Becomes, RequestType
  <2>2. /\ req[r].kind = "fix"
        /\ req' = [req EXCEPT ![r].todo = @ \ {t}]
        /\ \/ owner' = owner /\ calls' = calls
           \/ /\ owner[t] = "mirror" /\ owner' = [owner EXCEPT ![t] = "contract"]
              /\ calls' = Append(calls, [method |-> "addAsk", token |-> t, who |-> "admin"])
        /\ UNCHANGED <<rows, index, enabled, scan, closer, history>>
    BY <1>2 DEF OfferFromMirror, Called, chain
  <2>3. req[r].pool \in SUBSET Tokens /\ req[r].todo \ {t} \in SUBSET Tokens
    BY DEF RequestType
  <2> QED BY <2>1, <2>2, <2>3
<1> QED BY <1>1, <1>2

-----------------------------------------------------------------------------
(* The steps, request by request and row by row.                           *)

Begins(r, t) == MassAuctionSale(r) \/ MassFixPriceSale(r) \/ UpdateSearchIndex(r) \/ TokenInfo(r, t)
AtFixedPrice(r, t) == TransferToMirror(r, t) \/ OfferFromMirror(r, t)
Calls(t) == CallAddAsk(t) \/ CallTake(t, "cancelAsk") \/ CallTake(t, "buyKSM")

LEMMA Alternatives ==
  ASSUME ListingNext
  PROVE  \/ \E r \in Requests, t \in Tokens :
              \/ CreateAuction(r, t) \/ Begins(r, t)
              \/ CreateAsk(r, t) \/ UpdateToken(r, t)
              \/ TransferFinalized(r, t) \/ TransferDropped(r, t) \/ AtFixedPrice(r, t)
         \/ \E r \in Requests : CheckOwner(r) \/ GetIfExists(r) \/ SaveSearchIndex(r)
         \/ \E t \in Tokens : Calls(t)
         \/ ProcessAddAsk \/ ScanExists \/ ScanFetch \/ RegisterAsk
         \/ ProcessCancelAsk \/ ProcessBuyKSM
         \/ \E r \in Requests, t \in Tokens :
              \/ CancelAuction(<<r, t>>) \/ CloseAuction(<<r, t>>)
              \/ Deliver(<<r, t>>) \/ Settle(<<r, t>>)
         \/ MassFixPriceCancel
         \/ UNCHANGED <<chain, rows, index, req, scan, closer, history>>
<1>1. ASSUME NEW r \in Requests, Ask(r)
      PROVE  \E t \in Tokens : CreateAuction(r, t) \/ Begins(r, t)
  <2>1. CASE MassAuctionSale(r)
    <3>1. PICK t \in Tokens : owner[t] = "admin"
      BY <2>1 DEF MassAuctionSale, AccountTokens
    <3> QED BY <2>1, <3>1 DEF Begins
  <2>2. CASE MassFixPriceSale(r)
    <3>1. PICK t \in Tokens : owner[t] = "admin"
      BY <2>2 DEF MassFixPriceSale, AccountTokens
    <3> QED BY <2>2, <3>1 DEF Begins
  <2>3. CASE UpdateSearchIndex(r)
    <3>1. PICK t \in Tokens : index[t] > 0
      BY <2>3 DEF UpdateSearchIndex
    <3> QED BY <2>3, <3>1 DEF Begins
  <2> QED BY <1>1, <2>1, <2>2, <2>3 DEF Ask, Begins
<1>2. ASSUME Auctions
      PROVE  \E r \in Requests, t \in Tokens :
               \/ CancelAuction(<<r, t>>) \/ CloseAuction(<<r, t>>)
               \/ Deliver(<<r, t>>) \/ Settle(<<r, t>>)
  <2>1. PICK x \in Requests \X Tokens :
          CancelAuction(x) \/ CloseAuction(x) \/ Deliver(x) \/ Settle(x)
    BY <1>2 DEF Auctions
  <2>2. PICK r \in Requests, t \in Tokens : x = <<r, t>>
    OBVIOUS
  <2> QED BY <2>1, <2>2
<1>3. ASSUME Administrate
      PROVE  \/ MassFixPriceCancel
             \/ UNCHANGED <<chain, rows, index, req, scan, closer, history>>
  BY <1>3 DEF Administrate
<1>4. ASSUME NEW r \in Requests, Handle(r)
      PROVE  \/ CheckOwner(r) \/ GetIfExists(r) \/ SaveSearchIndex(r)
             \/ \E t \in Tokens : CreateAsk(r, t) \/ UpdateToken(r, t)
  BY <1>4 DEF Handle
<1>5. ASSUME Users
      PROVE  \E t \in Tokens : Calls(t)
  BY <1>5 DEF Users, Calls
<1>6. ASSUME Scan
      PROVE  \/ ProcessAddAsk \/ ScanExists \/ ScanFetch \/ RegisterAsk
             \/ ProcessCancelAsk \/ ProcessBuyKSM
  BY <1>6 DEF Scan
<1>7. \/ \E r \in Requests :
           \/ Ask(r) \/ Handle(r)
           \/ \E t \in Tokens : \/ TransferFinalized(r, t) \/ TransferDropped(r, t)
                                \/ AtFixedPrice(r, t)
      \/ Users \/ Scan \/ Auctions \/ Administrate
  BY DEF ListingNext, AtFixedPrice
<1>8. CASE \E r \in Requests : Ask(r)
  BY <1>1, <1>8
<1>9. CASE \E r \in Requests : Handle(r)
  BY <1>4, <1>9
<1>10. CASE \E r \in Requests, t \in Tokens :
              TransferFinalized(r, t) \/ TransferDropped(r, t) \/ AtFixedPrice(r, t)
  BY <1>10
<1> QED BY <1>2, <1>3, <1>5, <1>6, <1>7, <1>8, <1>9, <1>10

-----------------------------------------------------------------------------
(* Types.                                                                  *)

LEMMA RowsArePairs ==
  ASSUME NEW r \in Requests, NEW t \in Tokens
  PROVE  <<r, t>> \in Rows /\ <<Contract, t>> \in Rows
BY DEF Rows

\* Counting up and forgetting a token keeps the index a function to numbers.
LEMMA IndexTyped ==
  ASSUME index \in [Tokens -> Nat], NEW u,
         \/ index' = index
         \/ index' = [index EXCEPT ![u] = @ + 1]
         \/ index' = [index EXCEPT ![u] = 0]
  PROVE  index' \in [Tokens -> Nat]
OBVIOUS

LEMMA CallsTyped ==
  ASSUME calls \in Seq(CallType), NEW c \in CallType,
         \/ calls' = calls
         \/ calls' = Append(calls, c)
         \/ calls # <<>> /\ calls' = Tail(calls)
  PROVE  calls' \in Seq(CallType)
OBVIOUS

LEMMA TypesInit == ListingInit => ListingTypes
<1> SUFFICES ASSUME ListingInit PROVE ListingTypes
  OBVIOUS
<1>1. IdleRequest \in RequestType
  BY DEF IdleRequest, RequestType, Kinds, Places
<1>2. IdleScan \in ScanType
  BY DEF IdleScan, ScanType
<1>3. owner \in [Tokens -> Owners]
  BY DEF ListingInit, Owners
<1> QED BY <1>1, <1>2, <1>3 DEF ListingInit, ListingTypes

LEMMA TypesStep ==
  ASSUME ListingTypes, [ListingNext]_listingVars
  PROVE  ListingTypes'
<1> USE DEF ListingTypes
<1>1. ASSUME NEW r \in Requests, NEW t \in Tokens, CreateAuction(r, t)
      PROVE  ListingTypes'
  <2>1. req' \in [Requests -> RequestType]
    BY <1>1, CreateAuctionDoes DEF Becomes
  <2>2. owner' \in [Tokens -> Owners]
    BY <1>1, CreateAuctionDoes DEF ToAuction, Owners
  <2> QED BY <1>1, <2>1, <2>2, CreateAuctionDoes DEF rows
<1>2. ASSUME NEW r \in Requests, NEW t \in Tokens, Begins(r, t)
      PROVE  ListingTypes'
  <2>1. req' \in [Requests -> RequestType]
    BY <1>2, BeginsDoes DEF Becomes, Begins
  <2> QED BY <1>2, <2>1, BeginsDoes DEF rows, chain, Begins
<1>3. ASSUME NEW r \in Requests, NEW t \in Tokens, CreateAsk(r, t)
      PROVE  ListingTypes'
  <2>1. req' \in [Requests -> RequestType]
    BY <1>3, CreateAskDoes DEF Becomes
  <2>2. /\ ask' \in [Rows -> {"none", "active", "cancelled", "bought", "removed_by_admin"}]
        /\ auction' \in [Rows -> {"none", "active", "withdrawing", "ended"}]
    BY <1>3, CreateAskDoes
  <2> QED BY <1>3, <2>1, <2>2, CreateAskDoes DEF chain
<1>4. ASSUME NEW r \in Requests, NEW t \in Tokens, UpdateToken(r, t)
      PROVE  ListingTypes'
  <2>1. req' \in [Requests -> RequestType]
    BY <1>4, UpdateTokenDoes DEF Becomes
  <2>2. index' \in [Tokens -> Nat]
    <3>1. index' = [index EXCEPT ![t] = 0]
      BY <1>4, UpdateTokenDoes
    <3> QED BY <3>1, IndexTyped
  <2> QED BY <1>4, <2>1, <2>2, UpdateTokenDoes DEF chain, rows
<1>5. ASSUME NEW r \in Requests, NEW t \in Tokens, TransferFinalized(r, t)
      PROVE  ListingTypes'
  <2>1. req' \in [Requests -> RequestType]
    BY <1>5, TransferDoes DEF Becomes
  <2>2. owner' \in [Tokens -> Owners]
    BY <1>5, TransferDoes DEF ToAuction, Owners
  <2> QED BY <1>5, <2>1, <2>2, TransferDoes DEF rows
<1>6. ASSUME NEW r \in Requests, NEW t \in Tokens, TransferDropped(r, t)
      PROVE  ListingTypes'
  BY <1>6 DEF TransferDropped, chain, rows
<1>7. ASSUME NEW r \in Requests, NEW t \in Tokens, AtFixedPrice(r, t)
      PROVE  ListingTypes'
  <2>1. req' \in [Requests -> RequestType]
    BY <1>7, FixPriceDoes DEF Becomes, AtFixedPrice
  <2>2. owner' \in [Tokens -> Owners]
    BY <1>7, FixPriceDoes DEF Owners, AtFixedPrice
  <2>3. calls' \in Seq(CallType)
    <3> DEFINE c == [method |-> "addAsk", token |-> t, who |-> "admin"]
    <3>1. c \in CallType
      BY DEF CallType
    <3>2. calls' = calls \/ calls' = Append(calls, c)
      BY <1>7, FixPriceDoes DEF AtFixedPrice
    <3> QED BY <3>1, <3>2, CallsTyped
  <2> QED BY <1>7, <2>1, <2>2, <2>3, FixPriceDoes DEF rows, AtFixedPrice
<1>8. ASSUME NEW r \in Requests, CheckOwner(r)
      PROVE  ListingTypes'
  <2>1. req' \in [Requests -> RequestType]
    BY <1>8, CheckOwnerDoes DEF Becomes
  <2> QED BY <1>8, <2>1, CheckOwnerDoes DEF rows, chain
<1>9. ASSUME NEW r \in Requests, GetIfExists(r)
      PROVE  ListingTypes'
  <2>1. req' \in [Requests -> RequestType]
    BY <1>9, GetIfExistsDoes DEF Becomes
  <2> QED BY <1>9, <2>1, GetIfExistsDoes DEF rows, chain
<1>10. ASSUME NEW r \in Requests, SaveSearchIndex(r)
       PROVE  ListingTypes'
  <2>1. req' \in [Requests -> RequestType]
    BY <1>10, SaveSearchIndexDoes DEF Becomes
  <2>2. index' \in [Tokens -> Nat]
    <3>1. index' = index \/ index' = [index EXCEPT ![req[r].token] = @ + 1]
      BY <1>10, SaveSearchIndexDoes
    <3> QED BY <3>1, IndexTyped
  <2> QED BY <1>10, <2>1, <2>2, SaveSearchIndexDoes DEF rows, chain
<1>11. ASSUME NEW t \in Tokens, Calls(t)
       PROVE  ListingTypes'
  <2>1. owner' \in [Tokens -> Owners]
    BY <1>11 DEF Calls, CallAddAsk, CallTake, Owners
  <2>2. calls' \in Seq(CallType)
    <3>1. PICK m \in {"addAsk", "cancelAsk", "buyKSM"} :
            calls' = Append(calls, [method |-> m, token |-> t, who |-> "user"])
      BY <1>11 DEF Calls, CallAddAsk, CallTake, Called
    <3>2. [method |-> m, token |-> t, who |-> "user"] \in CallType
      BY DEF CallType
    <3> QED BY <3>1, <3>2, CallsTyped
  <2> QED BY <1>11, <2>1, <2>2 DEF Calls, CallAddAsk, CallTake, rows
<1>12. CASE ProcessAddAsk
  <2>1. calls # <<>> /\ Head(calls) \in CallType /\ calls' \in Seq(CallType)
    BY <1>12 DEF ProcessAddAsk
  <2>2. ask' \in [Rows -> {"none", "active", "cancelled", "bought", "removed_by_admin"}]
    BY <1>12 DEF ProcessAddAsk, WithAsks
  <2>3. scan' \in ScanType
    BY <1>12, <2>1 DEF ProcessAddAsk, ScanType, CallType
  <2> QED BY <1>12, <2>1, <2>2, <2>3 DEF ProcessAddAsk
<1>13. CASE ScanExists
  <2>1. scan' \in ScanType
    BY <1>13 DEF ScanExists, ScanType
  <2> QED BY <1>13, <2>1 DEF ScanExists, chain, rows
<1>14. CASE ScanFetch
  <2>1. IdleScan \in ScanType
    BY DEF IdleScan, ScanType
  <2>2. scan' \in ScanType
    BY <1>14, <2>1 DEF ScanFetch, ScanType
  <2>3. index' \in [Tokens -> Nat]
    <3>1. index' = index \/ index' = [index EXCEPT ![scan.token] = @ + 1]
      BY <1>14 DEF ScanFetch
    <3> QED BY <3>1, IndexTyped
  <2> QED BY <1>14, <2>2, <2>3 DEF ScanFetch, chain, rows
<1>15. CASE RegisterAsk
  <2>1. scan' \in ScanType
    BY <1>15 DEF RegisterAsk, IdleScan, ScanType
  <2>2. ask' \in [Rows -> {"none", "active", "cancelled", "bought", "removed_by_admin"}]
    BY <1>15 DEF RegisterAsk
  <2> QED BY <1>15, <2>1, <2>2 DEF RegisterAsk, chain
<1>16. CASE ProcessCancelAsk \/ ProcessBuyKSM
  <2>1. calls' \in Seq(CallType)
    <3>1. calls # <<>> /\ calls' = Tail(calls)
      BY <1>16 DEF ProcessCancelAsk, ProcessBuyKSM
    <3>2. Head(calls) \in CallType
      BY <3>1
    <3> QED BY <3>1, <3>2, CallsTyped
  <2>2. ask' \in [Rows -> {"none", "active", "cancelled", "bought", "removed_by_admin"}]
    BY <1>16 DEF ProcessCancelAsk, ProcessBuyKSM, WithAsks
  <2> QED BY <1>16, <2>1, <2>2 DEF ProcessCancelAsk, ProcessBuyKSM
<1>17. ASSUME NEW r \in Requests, NEW t \in Tokens,
              CancelAuction(<<r, t>>) \/ CloseAuction(<<r, t>>) \/ Settle(<<r, t>>)
       PROVE  ListingTypes'
  <2>1. ask' \in [Rows -> {"none", "active", "cancelled", "bought", "removed_by_admin"}]
    BY <1>17 DEF CancelAuction, CloseAuction, Settle
  <2>2. auction' \in [Rows -> {"none", "active", "withdrawing", "ended"}]
    BY <1>17 DEF CancelAuction, CloseAuction, Settle
  <2>3. closer' \in [Rows -> {"idle", "return", "sell", "settle"}]
    BY <1>17 DEF CancelAuction, CloseAuction, Settle
  <2> QED BY <1>17, <2>1, <2>2, <2>3 DEF CancelAuction, CloseAuction, Settle, chain
<1>18. ASSUME NEW r \in Requests, NEW t \in Tokens, Deliver(<<r, t>>)
       PROVE  ListingTypes'
  <2>1. r # Contract
    BY ListingAssumption
  <2>2. Seller(<<r, t>>) \in {"admin", "user"}
    BY <2>1 DEF Seller
  <2>3. owner' \in [Tokens -> Owners]
    <3>1. \/ owner' = owner
          \/ \E who \in {"admin", "user"} : owner' = [owner EXCEPT ![t] = who]
      BY <1>18, <2>2 DEF Deliver
    <3> QED BY <3>1 DEF ListingTypes, Owners
  <2>4. closer' \in [Rows -> {"idle", "return", "sell", "settle"}]
    BY <1>18 DEF Deliver
  <2> QED BY <1>18, <2>3, <2>4 DEF Deliver, rows
<1>19. CASE MassFixPriceCancel
  <2>1. ask' \in [Rows -> {"none", "active", "cancelled", "bought", "removed_by_admin"}]
    BY <1>19 DEF MassFixPriceCancel, WithAsks
  <2> QED BY <1>19, <2>1 DEF MassFixPriceCancel, chain
<1>20. CASE UNCHANGED <<chain, rows, index, req, scan, closer, history>>
  BY <1>20 DEF chain, rows
<1>21. CASE UNCHANGED listingVars
  BY <1>21 DEF listingVars, chain, rows
<1> HIDE DEF ListingTypes
<1> QED BY <1>1, <1>2, <1>3, <1>4, <1>5, <1>6, <1>7, <1>8, <1>9, <1>10, <1>11, <1>12, <1>13,
          <1>14, <1>15, <1>16, <1>17, <1>18, <1>19, <1>20, <1>21, Alternatives

-----------------------------------------------------------------------------
(* What a request is going to do.                                          *)

\* A token for which the request is going to create an auction: it was transferred.
Planned(r, t) ==
  \/ req[r].kind = "create" /\ req[r].pc \in {"owner", "save"} /\ req[r].token = t
  \/ req[r].kind = "mass" /\ t \in req[r].todo

(* A request that has not begun has no auctions, and no request has an     *)
(* auction already that it is going to create.                             *)
PlanFor(r) ==
  /\ req[r].pc = "idle" => req[r].kind = "none" /\ \A t \in Tokens : auction[<<r, t>>] = "none"
  /\ req[r].pc = "transfer" => req[r].kind = "mass" /\ \A t \in req[r].pool : auction[<<r, t>>] = "none"
  /\ req[r].kind = "create" => req[r].pool = {} /\ req[r].todo = {}
  /\ req[r].kind = "mass" /\ req[r].pc = "done" => req[r].todo = {}
  /\ \A t \in Tokens : Planned(r, t) => auction[<<r, t>>] = "none"
PlanOK == \A r \in Requests : PlanFor(r)

\* Nothing is left to do for an auction that runs, and the escrow's rows have none.
CloserOK ==
  /\ \A x \in Rows : auction[x] \in {"none", "active"} => closer[x] = "idle"
  /\ \A t \in Tokens : auction[<<Contract, t>>] = "none"

LEMMA PlanInit == ListingInit => PlanOK /\ CloserOK
<1> SUFFICES ASSUME ListingInit PROVE PlanOK /\ CloserOK
  OBVIOUS
<1>1. ASSUME NEW r \in Requests PROVE PlanFor(r)
  BY <1>1 DEF ListingInit, PlanFor, Planned, IdleRequest, Rows
<1>2. CloserOK
  BY DEF ListingInit, CloserOK, Rows
<1> QED BY <1>1, <1>2 DEF PlanOK

\* A request keeps its plan while neither it nor its auctions change.
LEMMA PlanKept ==
  ASSUME NEW r \in Requests, PlanFor(r), req'[r] = req[r],
         \A t \in Tokens : auction[<<r, t>>] = "none" => auction'[<<r, t>>] = "none",
         req[r] \in RequestType
  PROVE  PlanFor(r)'
BY DEF PlanFor, Planned, RequestType

LEMMA OthersKeepPlans ==
  ASSUME ListingTypes, PlanOK, NEW r \in Requests,
         NEW k, NEW p, NEW t, NEW pool, NEW todo, Becomes(r, k, p, t, pool, todo),
         \A q \in Requests \ {r} : \A u \in Tokens :
            auction[<<q, u>>] = "none" => auction'[<<q, u>>] = "none",
         PlanFor(r)'
  PROVE  PlanOK'
<1>1. ASSUME NEW q \in Requests \ {r} PROVE PlanFor(q)'
  <2>1. req'[q] = req[q] /\ req[q] \in RequestType /\ PlanFor(q)
    BY DEF Becomes, ListingTypes, PlanOK
  <2> QED BY <2>1, PlanKept
<1> QED BY <1>1 DEF PlanOK

LEMMA PlanStep ==
  ASSUME ListingTypes, PlanOK, CloserOK, [ListingNext]_listingVars
  PROVE  PlanOK'
<1>0. req \in [Requests -> RequestType]
  BY DEF ListingTypes
<1>1. ASSUME NEW r \in Requests, NEW t \in Tokens, CreateAuction(r, t)
      PROVE  PlanOK'
  <2>1. auction' = auction /\ req[r].pc = "idle" /\ PlanFor(r)
    BY <1>0, <1>1, CreateAuctionDoes DEF rows, PlanOK
  <2>2. ASSUME NEW p \in {"owner", "done"}, NEW u \in {t, NoToken}, Becomes(r, "create", p, u, {}, {})
        PROVE  PlanOK'
    <3>1. PlanFor(r)'
      BY <2>1, <2>2 DEF PlanFor, Planned, Becomes
    <3> QED BY <2>1, <2>2, <3>1, OthersKeepPlans
  <2> QED BY <1>0, <1>1, <2>2, CreateAuctionDoes
<1>2. ASSUME NEW r \in Requests, NEW t \in Tokens, Begins(r, t)
      PROVE  PlanOK'
  <2>1. auction' = auction /\ req[r].pc = "idle" /\ PlanFor(r)
    BY <1>0, <1>2, BeginsDoes DEF rows, PlanOK, Begins
  <2>2. CASE Becomes(r, "mass", "transfer", NoToken, AccountTokens, {})
    <3>1. PlanFor(r)'
      BY <2>1, <2>2 DEF PlanFor, Planned, Becomes, AccountTokens
    <3> QED BY <2>1, <2>2, <3>1, OthersKeepPlans
  <2>3. ASSUME NEW k \in {"fix", "update", "info"}, NEW p \in {"done", "next", "fetch"}, NEW u,
               NEW pool, NEW todo, Becomes(r, k, p, u, pool, todo)
        PROVE  PlanOK'
    <3>1. PlanFor(r)'
      BY <2>3 DEF PlanFor, Planned, Becomes
    <3> QED BY <2>1, <2>3, <3>1, OthersKeepPlans
  <2>4. \/ Becomes(r, "mass", "transfer", NoToken, AccountTokens, {})
        \/ \E k \in {"fix", "update", "info"}, p \in {"done", "next", "fetch"} :
             \E u \in {t, NoToken} : \E pool, todo \in SUBSET Tokens : Becomes(r, k, p, u, pool, todo)
    <3>1. AccountTokens \in SUBSET Tokens /\ {} \in SUBSET Tokens
      BY DEF AccountTokens
    <3> QED BY <1>0, <1>2, <3>1, BeginsDoes DEF Begins
  <2> QED BY <2>2, <2>3, <2>4
<1>3. ASSUME NEW r \in Requests, NEW t \in Tokens, CreateAsk(r, t)
      PROVE  PlanOK'
  <2>1. PlanFor(r)
    BY DEF PlanOK
  <2>2. CASE /\ auction' = [auction EXCEPT ![<<r, t>>] = "active"]
             /\ Becomes(r, req[r].kind, "exists", t, req[r].pool, req[r].todo \ {t})
    <3>1. \A u \in Tokens : u # t => auction'[<<r, u>>] = auction[<<r, u>>]
      BY <2>2, RowsArePairs DEF ListingTypes
    <3>2. PlanFor(r)'
      BY <2>1, <2>2, <3>1 DEF PlanFor, Planned, Becomes
    <3>3. \A q \in Requests \ {r} : \A u \in Tokens : auction'[<<q, u>>] = auction[<<q, u>>]
      BY <2>2, RowsArePairs DEF ListingTypes
    <3> QED BY <2>2, <3>2, <3>3, OthersKeepPlans
  <2>3. CASE auction' = auction /\ Becomes(r, req[r].kind, "done", NoToken, req[r].pool, {})
    <3>1. PlanFor(r)'
      BY <2>1, <2>3 DEF PlanFor, Planned, Becomes
    <3> QED BY <2>3, <3>1, OthersKeepPlans
  <2> QED BY <1>0, <1>3, <2>2, <2>3, CreateAskDoes
<1>4. ASSUME NEW r \in Requests, NEW t \in Tokens, UpdateToken(r, t)
      PROVE  PlanOK'
  <2>1. /\ auction' = auction /\ req[r].kind = "update"
        /\ Becomes(r, req[r].kind, "exists", t, req[r].pool, req[r].todo \ {t})
    BY <1>0, <1>4, UpdateTokenDoes DEF rows
  <2>2. PlanFor(r)'
    BY <2>1 DEF PlanFor, Planned, Becomes
  <2> QED BY <2>1, <2>2, OthersKeepPlans
<1>5. ASSUME NEW r \in Requests, NEW t \in Tokens, TransferFinalized(r, t)
      PROVE  PlanOK'
  <2>1. auction' = auction /\ req[r].pc = "transfer" /\ t \in req[r].pool /\ PlanFor(r)
    BY <1>0, <1>5, TransferDoes DEF rows, PlanOK
  <2>2. ASSUME NEW p \in {"next", "transfer"},
               Becomes(r, req[r].kind, p, req[r].token, req[r].pool \ {t}, req[r].todo \cup {t})
        PROVE  PlanOK'
    <3>1. PlanFor(r)'
      BY <2>1, <2>2 DEF PlanFor, Planned, Becomes
    <3> QED BY <2>1, <2>2, <3>1, OthersKeepPlans
  <2> QED BY <1>0, <1>5, <2>2, TransferDoes
<1>6. ASSUME NEW r \in Requests, NEW t \in Tokens, AtFixedPrice(r, t)
      PROVE  PlanOK'
  <2>1. auction' = auction /\ req[r].kind = "fix" /\ PlanFor(r)
    BY <1>0, <1>6, FixPriceDoes DEF rows, PlanOK, AtFixedPrice
  <2>2. PICK pool, todo \in SUBSET Tokens :
          Becomes(r, req[r].kind, req[r].pc, req[r].token, pool, todo)
    BY <1>0, <1>6, FixPriceDoes DEF AtFixedPrice
  <2>3. PlanFor(r)'
    BY <2>1, <2>2 DEF PlanFor, Planned, Becomes
  <2> QED BY <2>1, <2>2, <2>3, OthersKeepPlans
<1>7. ASSUME NEW r \in Requests, CheckOwner(r)
      PROVE  PlanOK'
  <2>1. auction' = auction /\ req[r].pc = "owner" /\ PlanFor(r)
    BY <1>0, <1>7, CheckOwnerDoes DEF rows, PlanOK
  <2>2. CASE Becomes(r, req[r].kind, "save", req[r].token, req[r].pool, req[r].todo)
    <3>1. PlanFor(r)'
      BY <2>1, <2>2 DEF PlanFor, Planned, Becomes
    <3> QED BY <2>1, <2>2, <3>1, OthersKeepPlans
  <2>3. CASE Becomes(r, req[r].kind, "done", NoToken, req[r].pool, {})
    <3>1. PlanFor(r)'
      BY <2>1, <2>3 DEF PlanFor, Planned, Becomes
    <3> QED BY <2>1, <2>3, <3>1, OthersKeepPlans
  <2> QED BY <1>0, <1>7, <2>2, <2>3, CheckOwnerDoes
<1>8. ASSUME NEW r \in Requests, GetIfExists(r) \/ SaveSearchIndex(r)
      PROVE  PlanOK'
  <2>1. auction' = auction /\ req[r].pc \in {"exists", "fetch"} /\ PlanFor(r)
    BY <1>0, <1>8, GetIfExistsDoes, SaveSearchIndexDoes DEF rows, PlanOK
  <2>2. CASE Becomes(r, req[r].kind, "fetch", req[r].token, req[r].pool, req[r].todo)
    <3>1. PlanFor(r)'
      BY <2>1, <2>2 DEF PlanFor, Planned, Becomes
    <3> QED BY <2>1, <2>2, <3>1, OthersKeepPlans
  <2>3. CASE Becomes(r, req[r].kind, "done", NoToken, req[r].pool, {})
    <3>1. PlanFor(r)'
      BY <2>1, <2>3 DEF PlanFor, Planned, Becomes
    <3> QED BY <2>1, <2>3, <3>1, OthersKeepPlans
  <2>4. CASE Becomes(r, req[r].kind, "next", NoToken, req[r].pool, req[r].todo)
    <3>1. PlanFor(r)'
      BY <2>1, <2>4 DEF PlanFor, Planned, Becomes
    <3> QED BY <2>1, <2>4, <3>1, OthersKeepPlans
  <2> QED BY <1>0, <1>8, <2>2, <2>3, <2>4, GetIfExistsDoes, SaveSearchIndexDoes
<1>9. ASSUME req' = req, \A x \in Rows : auction[x] = "none" => auction'[x] = "none"
      PROVE  PlanOK'
  <2> SUFFICES ASSUME NEW r \in Requests PROVE PlanFor(r)'
    BY DEF PlanOK
  <2>1. PlanFor(r) /\ req[r] \in RequestType
    BY <1>0 DEF PlanOK
  <2> QED BY <1>9, <2>1, PlanKept, RowsArePairs
<1>10. ASSUME NEW r \in Requests, NEW t \in Tokens,
              CancelAuction(<<r, t>>) \/ CloseAuction(<<r, t>>) \/ Deliver(<<r, t>>) \/ Settle(<<r, t>>)
       PROVE  PlanOK'
  <2>1. <<r, t>> \in Rows
    BY RowsArePairs
  <2>2. req' = req /\ (auction' = auction \/ auction[<<r, t>>] # "none")
    BY <1>10, <2>1 DEF CancelAuction, CloseAuction, Deliver, Settle, CloserOK, rows
  <2>3. \A x \in Rows : x # <<r, t>> => auction'[x] = auction[x]
    BY <1>10 DEF CancelAuction, CloseAuction, Deliver, Settle, ListingTypes, rows
  <2> QED BY <1>9, <2>2, <2>3
<1>11. ASSUME NEW t \in Tokens, Calls(t)
       PROVE  PlanOK'
  BY <1>9, <1>11 DEF Calls, CallAddAsk, CallTake, rows
<1>12. ASSUME \/ ProcessAddAsk \/ ScanExists \/ ScanFetch \/ RegisterAsk
              \/ ProcessCancelAsk \/ ProcessBuyKSM \/ MassFixPriceCancel
       PROVE  PlanOK'
  BY <1>9, <1>12 DEF ProcessAddAsk, ScanExists, ScanFetch, RegisterAsk, ProcessCancelAsk,
                     ProcessBuyKSM, MassFixPriceCancel, rows
<1>13. ASSUME NEW r \in Requests, NEW t \in Tokens, TransferDropped(r, t)
       PROVE  PlanOK'
  BY <1>9, <1>13 DEF TransferDropped, rows
<1>14. ASSUME UNCHANGED <<chain, rows, index, req, scan, closer, history>> \/ UNCHANGED listingVars
       PROVE  PlanOK'
  BY <1>9, <1>14 DEF rows, listingVars
<1> QED BY <1>1, <1>2, <1>3, <1>4, <1>5, <1>6, <1>7, <1>8, <1>10, <1>11, <1>12, <1>13, <1>14,
          Alternatives

LEMMA CloserStep ==
  ASSUME ListingTypes, CloserOK, PlanOK, [ListingNext]_listingVars
  PROVE  CloserOK'
<1>0. req \in [Requests -> RequestType]
  BY DEF ListingTypes
<1>1. ASSUME UNCHANGED <<auction, closer>> PROVE CloserOK'
  BY <1>1 DEF CloserOK
<1>2. ASSUME NEW r \in Requests, NEW t \in Tokens, CreateAsk(r, t)
      PROVE  CloserOK'
  <2>1. closer' = closer /\ (auction' = auction \/ auction' = [auction EXCEPT ![<<r, t>>] = "active"])
    BY <1>0, <1>2, CreateAskDoes
  <2>2. Planned(r, t) /\ PlanFor(r)
    BY <1>0, <1>2, CreateAskDoes DEF Planned, PlanOK
  <2>3. auction[<<r, t>>] = "none" /\ <<r, t>> \in Rows
    BY <2>2, RowsArePairs DEF PlanFor
  <2>4. closer[<<r, t>>] = "idle"
    BY <2>3 DEF CloserOK
  <2>5. \A u \in Tokens : <<Contract, u>> # <<r, t>>
    BY ListingAssumption
  <2>6. \A x \in Rows \ {<<r, t>>} : auction'[x] = auction[x] /\ closer'[x] = closer[x]
    BY <2>1 DEF ListingTypes
  <2>7. closer'[<<r, t>>] = "idle"
    BY <2>1, <2>4
  <2> QED BY <2>5, <2>6, <2>7, RowsArePairs DEF CloserOK
<1>3. ASSUME NEW r \in Requests, NEW t \in Tokens,
              CancelAuction(<<r, t>>) \/ CloseAuction(<<r, t>>)
      PROVE  CloserOK'
  <2>1. \A u \in Tokens : <<Contract, u>> # <<r, t>>
    BY ListingAssumption
  <2>2. /\ \A x \in Rows \ {<<r, t>>} : auction'[x] = auction[x] /\ closer'[x] = closer[x]
        /\ auction'[<<r, t>>] \notin {"none", "active"}
    BY <1>3, RowsArePairs DEF CancelAuction, CloseAuction, ListingTypes
  <2> QED BY <2>1, <2>2, RowsArePairs DEF CloserOK
<1>4. ASSUME NEW r \in Requests, NEW t \in Tokens, Deliver(<<r, t>>) \/ Settle(<<r, t>>)
      PROVE  CloserOK'
  <2>1. \A u \in Tokens : <<Contract, u>> # <<r, t>>
    BY ListingAssumption
  <2>2. auction[<<r, t>>] \notin {"none", "active"}
    BY <1>4, RowsArePairs DEF Deliver, Settle, CloserOK
  <2>3. /\ \A x \in Rows \ {<<r, t>>} : auction'[x] = auction[x] /\ closer'[x] = closer[x]
        /\ auction'[<<r, t>>] \in {auction[<<r, t>>], "ended"}
    BY <1>4, RowsArePairs DEF Deliver, Settle, ListingTypes, rows
  <2> QED BY <2>1, <2>2, <2>3, RowsArePairs DEF CloserOK
<1>5. ASSUME NEW r \in Requests, NEW t \in Tokens,
             \/ CreateAuction(r, t) \/ Begins(r, t) \/ UpdateToken(r, t)
             \/ TransferFinalized(r, t) \/ TransferDropped(r, t) \/ AtFixedPrice(r, t)
      PROVE  CloserOK'
  BY <1>0, <1>1, <1>5, CreateAuctionDoes, BeginsDoes, UpdateTokenDoes, TransferDoes, FixPriceDoes
     DEF TransferDropped, rows, Begins, AtFixedPrice
<1>6. ASSUME NEW r \in Requests, CheckOwner(r) \/ GetIfExists(r) \/ SaveSearchIndex(r)
      PROVE  CloserOK'
  BY <1>0, <1>1, <1>6, CheckOwnerDoes, GetIfExistsDoes, SaveSearchIndexDoes DEF rows
<1>7. ASSUME NEW t \in Tokens, Calls(t)
      PROVE  CloserOK'
  BY <1>1, <1>7 DEF Calls, CallAddAsk, CallTake, rows
<1>8. ASSUME \/ ProcessAddAsk \/ ScanExists \/ ScanFetch \/ RegisterAsk
             \/ ProcessCancelAsk \/ ProcessBuyKSM \/ MassFixPriceCancel
      PROVE  CloserOK'
  BY <1>1, <1>8 DEF ProcessAddAsk, ScanExists, ScanFetch, RegisterAsk, ProcessCancelAsk,
                    ProcessBuyKSM, MassFixPriceCancel, rows
<1>9. ASSUME UNCHANGED <<chain, rows, index, req, scan, closer, history>> \/ UNCHANGED listingVars
      PROVE  CloserOK'
  BY <1>1, <1>9 DEF rows, listingVars
<1> QED BY <1>2, <1>3, <1>4, <1>5, <1>6, <1>7, <1>8, <1>9, Alternatives

-----------------------------------------------------------------------------
(* Custody.  Who has a claim to the token that the auction account holds:  *)
(* an auction that runs or still owes the token to somebody, or a request  *)
(* that will create an auction for it.                                     *)

RowClaim(r, t) == auction[<<r, t>>] = "active" \/ closer[<<r, t>>] \in {"return", "sell"}
Claim(r, t) == RowClaim(r, t) \/ Planned(r, t)

(* A token with a claim to it is held, and the claims do not compete: it is*)
(* this that keeps one auction's end from giving away another's token.     *)
HeldAt(t) ==
  \/ Phantom(t)
  \/ /\ \A r \in Requests : Claim(r, t) => owner[t] = "auction"
     /\ \A q, r \in Requests : Claim(q, t) /\ Claim(r, t) => q = r

\* A token that is held is claimed, or its loss was reported, or logged.
KnownAt(t) ==
  \/ Phantom(t) \/ t \in told \/ t \in kept
  \/ owner[t] = "auction" => \E r \in Requests : Claim(r, t)

CustodyOK == \A t \in Tokens : HeldAt(t) /\ KnownAt(t)

LEMMA CustodyInit == ListingInit => CustodyOK
<1> SUFFICES ASSUME ListingInit, NEW t \in Tokens PROVE HeldAt(t) /\ KnownAt(t)
  BY DEF CustodyOK
<1>1. ASSUME NEW r \in Requests PROVE ~Claim(r, t)
  BY RowsArePairs DEF ListingInit, Claim, RowClaim, Planned, IdleRequest
<1>2. owner[t] # "auction"
  BY DEF ListingInit
<1> QED BY <1>1, <1>2 DEF HeldAt, KnownAt

LEMMA PhantomsStay ==
  ASSUME NEW t, unsent \subseteq unsent', Phantom(t)
  PROVE  Phantom(t)'
BY DEF Phantom

\* A step that makes no new claim, and takes a token only with its claims.
LEMMA HeldKept ==
  ASSUME NEW t \in Tokens, HeldAt(t), unsent \subseteq unsent',
         \A r \in Requests : Claim(r, t)' => Claim(r, t),
         \/ owner'[t] = owner[t] \/ owner[t] # "auction"
         \/ \A r \in Requests : ~Claim(r, t)'
  PROVE  HeldAt(t)'
<1>1. CASE Phantom(t)
  BY <1>1, PhantomsStay DEF HeldAt
<1>2. CASE ~Phantom(t)
  <2>1. /\ \A r \in Requests : Claim(r, t) => owner[t] = "auction"
        /\ \A q, r \in Requests : Claim(q, t) /\ Claim(r, t) => q = r
    BY <1>2 DEF HeldAt
  <2>2. /\ \A r \in Requests : Claim(r, t)' => owner'[t] = "auction"
        /\ \A q, r \in Requests : Claim(q, t)' /\ Claim(r, t)' => q = r
    BY <2>1
  <2> QED BY <2>2 DEF HeldAt
<1> QED BY <1>1, <1>2

\* A step that takes no token and reports each claim that it drops.
LEMMA KnownKept ==
  ASSUME NEW t \in Tokens, KnownAt(t), unsent \subseteq unsent', kept \subseteq kept', t \in told => t \in told',
         owner'[t] = "auction" => owner[t] = "auction",
         \A r \in Requests : Claim(r, t) => Claim(r, t)' \/ t \in told'
  PROVE  KnownAt(t)'
<1>1. CASE Phantom(t)
  BY <1>1, PhantomsStay DEF KnownAt
<1>2. CASE t \in told' \/ t \in kept'
  BY <1>2 DEF KnownAt
<1>3. CASE ~Phantom(t) /\ t \notin told' /\ t \notin kept'
  <2>1. owner[t] = "auction" => \E r \in Requests : Claim(r, t)
    BY <1>3 DEF KnownAt
  <2>2. owner'[t] = "auction" => \E r \in Requests : Claim(r, t)'
    BY <1>3, <2>1
  <2> QED BY <2>2 DEF KnownAt
<1> QED BY <1>1, <1>2, <1>3

\* A step that is of no consequence for the custody of a token.
LEMMA CustodyKept ==
  ASSUME NEW t \in Tokens, HeldAt(t), KnownAt(t), unsent \subseteq unsent', kept \subseteq kept',
         t \in told => t \in told',
         \/ owner'[t] = owner[t] \/ (owner[t] # "auction" /\ owner'[t] # "auction"),
         \A r \in Requests : Claim(r, t)' <=> Claim(r, t)
  PROVE  HeldAt(t)' /\ KnownAt(t)'
<1>1. HeldAt(t)'
  BY HeldKept
<1>2. KnownAt(t)'
  BY KnownKept
<1> QED BY <1>1, <1>2

\* The step of a request leaves the claims of other requests alone.
LEMMA OtherClaims ==
  ASSUME NEW r \in Requests, NEW k, NEW p, NEW v, NEW pool, NEW todo,
         Becomes(r, k, p, v, pool, todo), UNCHANGED <<auction, closer>>,
         NEW q \in Requests \ {r}, NEW t
  PROVE  Claim(q, t)' <=> Claim(q, t)
BY DEF Claim, RowClaim, Planned, Becomes

\* A request that fails drops its claims, each of them reported.
LEMMA CustodyAfterFailure ==
  ASSUME ListingTypes, CustodyOK, NEW r \in Requests,
         Becomes(r, req[r].kind, "done", NoToken, req[r].pool, {}),
         told \subseteq told',
         req[r].kind \in {"create", "mass"} => {req[r].token} \cup req[r].todo \subseteq told',
         UNCHANGED <<owner, auction, closer, unsent, kept>>
  PROVE  CustodyOK'
<1> SUFFICES ASSUME NEW t \in Tokens PROVE HeldAt(t)' /\ KnownAt(t)'
  BY DEF CustodyOK
<1>1. HeldAt(t) /\ KnownAt(t)
  BY DEF CustodyOK
<1>2. \A q \in Requests \ {r} : Claim(q, t)' <=> Claim(q, t)
  BY OtherClaims
<1>3. RowClaim(r, t)' <=> RowClaim(r, t)
  BY DEF RowClaim
<1>4. ~Planned(r, t)'
  BY DEF Planned, Becomes
<1>5. Planned(r, t) => t \in told'
  BY DEF Planned
<1>6. \A q \in Requests : Claim(q, t)' => Claim(q, t)
  BY <1>2, <1>3, <1>4 DEF Claim
<1>7. \A q \in Requests : Claim(q, t) => Claim(q, t)' \/ t \in told'
  BY <1>2, <1>3, <1>5 DEF Claim
<1>8. HeldAt(t)'
  BY <1>1, <1>6, HeldKept
<1>9. KnownAt(t)'
  BY <1>1, <1>7, KnownKept
<1> QED BY <1>8, <1>9

\* A request that goes on with the same plan.
LEMMA CustodyOfPlan ==
  ASSUME ListingTypes, CustodyOK, NEW r \in Requests, NEW k, NEW p, NEW v, NEW pool, NEW todo,
         Becomes(r, k, p, v, pool, todo), UNCHANGED <<auction, closer>>,
         unsent \subseteq unsent', kept \subseteq kept',
         NEW t \in Tokens, t \in told => t \in told', Planned(r, t)' <=> Planned(r, t),
         \/ owner'[t] = owner[t] \/ (owner[t] # "auction" /\ owner'[t] # "auction")
  PROVE  HeldAt(t)' /\ KnownAt(t)'
<1>1. HeldAt(t) /\ KnownAt(t)
  BY DEF CustodyOK
<1>2. \A q \in Requests \ {r} : Claim(q, t)' <=> Claim(q, t)
  BY OtherClaims
<1>3. Claim(r, t)' <=> Claim(r, t)
  BY DEF Claim, RowClaim
<1> QED BY <1>1, <1>2, <1>3, CustodyKept

\* A token that somebody else had and that the auction account gets now.
LEMMA CustodyOfNew ==
  ASSUME NEW t \in Tokens, HeldAt(t), NEW r \in Requests, owner[t] # "auction",
         owner'[t] = "auction", unsent \subseteq unsent', Claim(r, t)',
         \A q \in Requests \ {r} : Claim(q, t)' <=> Claim(q, t)
  PROVE  HeldAt(t)' /\ KnownAt(t)'
<1>1. CASE Phantom(t)
  BY <1>1, PhantomsStay DEF HeldAt, KnownAt
<1>2. CASE ~Phantom(t)
  <2>1. \A q \in Requests : ~Claim(q, t)
    BY <1>2 DEF HeldAt
  <2>2. \A q \in Requests : Claim(q, t)' => q = r
    BY <2>1
  <2> QED BY <2>2 DEF HeldAt, KnownAt
<1> QED BY <1>1, <1>2

LEMMA CustodyStep ==
  ASSUME ListingTypes, PlanOK, CloserOK, CustodyOK, [ListingNext]_listingVars
  PROVE  CustodyOK'
<1>0. req \in [Requests -> RequestType] /\ owner \in [Tokens -> Owners]
  BY DEF ListingTypes
<1>1. ASSUME NEW r \in Requests, NEW t \in Tokens, CreateAuction(r, t)
      PROVE  CustodyOK'
  <2> SUFFICES ASSUME NEW u \in Tokens PROVE HeldAt(u)' /\ KnownAt(u)'
    BY DEF CustodyOK
  <2>1. /\ UNCHANGED <<auction, closer>> /\ unsent \subseteq unsent' /\ kept \subseteq kept'
        /\ req[r].pc = "idle" /\ PlanFor(r) /\ HeldAt(u)
    BY <1>0, <1>1, CreateAuctionDoes DEF rows, PlanOK, CustodyOK
  <2>2. ~Planned(r, u) /\ ~RowClaim(r, u)
    <3>1. ~Planned(r, u) /\ auction[<<r, u>>] = "none"
      BY <2>1 DEF PlanFor, Planned
    <3>2. closer[<<r, u>>] = "idle"
      BY <3>1, RowsArePairs DEF CloserOK
    <3> QED BY <3>1, <3>2 DEF RowClaim
  <2>3. CASE /\ Becomes(r, "create", "owner", t, {}, {})
             /\ owner[t] = "user" /\ ToAuction(t) /\ told' = told \ {t}
    <3>1. owner' = [owner EXCEPT ![t] = "auction"]
      BY <2>3 DEF ToAuction
    <3>2. CASE u = t
      <4>1. Claim(r, t)'
        BY <2>3 DEF Claim, Planned, Becomes
      <4>2. \A q \in Requests \ {r} : Claim(q, t)' <=> Claim(q, t)
        BY <2>1, <2>3, OtherClaims
      <4>3. owner[t] # "auction" /\ owner'[t] = "auction"
        BY <1>0, <2>3, <3>1
      <4> QED BY <2>1, <3>2, <4>1, <4>2, <4>3, CustodyOfNew
    <3>3. CASE u # t
      <4>1. Planned(r, u)' <=> Planned(r, u)
        BY <2>2, <2>3, <3>3 DEF Planned, Becomes
      <4>2. owner'[u] = owner[u] /\ (u \in told => u \in told')
        BY <1>0, <2>3, <3>1, <3>3
      <4> QED BY <2>1, <2>3, <4>1, <4>2, CustodyOfPlan
    <3> QED BY <3>2, <3>3
  <2>4. CASE Becomes(r, "create", "done", NoToken, {}, {})
             /\ owner[t] = "user" /\ ToAuction(t) /\ told' = told \cup {t}
    <3>1. owner' = [owner EXCEPT ![t] = "auction"]
      BY <2>4 DEF ToAuction
    <3>2. Planned(r, u)' <=> Planned(r, u)
      BY <2>2, <2>4 DEF Planned, Becomes
    <3>3. CASE u # t
      <4>1. owner'[u] = owner[u] /\ (u \in told => u \in told')
        BY <1>0, <2>4, <3>1, <3>3
      <4> QED BY <2>1, <2>4, <3>2, <4>1, CustodyOfPlan
    <3>4. CASE u = t
      <4>1. KnownAt(t)'
        BY <2>4 DEF KnownAt
      <4>2. \A q \in Requests \ {r} : Claim(q, t)' <=> Claim(q, t)
        BY <2>1, <2>4, OtherClaims
      <4>3. Claim(r, t)' <=> Claim(r, t)
        BY <2>1, <3>2, <3>4 DEF Claim, RowClaim
      <4>4. owner[t] # "auction"
        BY <2>4
      <4>5. HeldAt(t)'
        BY <2>1, <3>4, <4>2, <4>3, <4>4, HeldKept
      <4> QED BY <3>4, <4>1, <4>5
    <3> QED BY <3>3, <3>4
  <2>5. CASE Becomes(r, "create", "done", NoToken, {}, {}) /\ owner' = owner /\ told' = told
    <3>1. Planned(r, u)' <=> Planned(r, u)
      BY <2>2, <2>5 DEF Planned, Becomes
    <3> QED BY <2>1, <2>5, <3>1, CustodyOfPlan
  <2> QED BY <1>0, <1>1, <2>3, <2>4, <2>5, CreateAuctionDoes
<1>2. ASSUME NEW r \in Requests, NEW t \in Tokens, Begins(r, t)
      PROVE  CustodyOK'
  <2> SUFFICES ASSUME NEW u \in Tokens PROVE HeldAt(u)' /\ KnownAt(u)'
    BY DEF CustodyOK
  <2>1. /\ UNCHANGED <<owner, auction, closer, told, unsent, kept>>
        /\ req[r].pc = "idle" /\ PlanFor(r)
    BY <1>0, <1>2, BeginsDoes DEF rows, chain, history, PlanOK, Begins
  <2>2. ~Planned(r, u)
    BY <2>1 DEF PlanFor, Planned
  <2>3. PICK k \in {"mass", "fix", "update", "info"}, p \in Places, v \in {t, NoToken},
             pool, todo \in SUBSET Tokens :
          Becomes(r, k, p, v, pool, todo) /\ (k = "mass" => todo = {})
    <3>1. AccountTokens \in SUBSET Tokens /\ {} \in SUBSET Tokens
      BY DEF AccountTokens
    <3> QED BY <1>0, <1>2, <3>1, BeginsDoes DEF Begins, Places
  <2>4. ~Planned(r, u)'
    BY <2>3 DEF Planned, Becomes
  <2> QED BY <2>1, <2>2, <2>3, <2>4, CustodyOfPlan
<1>3. ASSUME NEW r \in Requests, NEW t \in Tokens, CreateAsk(r, t)
      PROVE  CustodyOK'
  <2>1. UNCHANGED <<owner, closer, unsent, kept>> /\ PlanFor(r) /\ Planned(r, t)
    BY <1>0, <1>3, CreateAskDoes DEF chain, PlanOK, Planned
  <2>2. CASE /\ auction' = [auction EXCEPT ![<<r, t>>] = "active"]
             /\ Becomes(r, req[r].kind, "exists", t, req[r].pool, req[r].todo \ {t})
             /\ told' = told
    <3> SUFFICES ASSUME NEW u \in Tokens PROVE HeldAt(u)' /\ KnownAt(u)'
      BY DEF CustodyOK
    <3>1. \A q \in Requests \ {r} : Claim(q, u)' <=> Claim(q, u)
      <4> TAKE q \in Requests \ {r}
      <4>1. auction'[<<q, u>>] = auction[<<q, u>>] /\ closer' = closer
        BY <2>1, <2>2, RowsArePairs DEF ListingTypes
      <4>2. req'[q] = req[q]
        BY <2>2 DEF Becomes
      <4> QED BY <4>1, <4>2 DEF Claim, RowClaim, Planned
    <3>2. Claim(r, u)' <=> Claim(r, u)
      <4>1. CASE u = t
        <5>1. auction'[<<r, t>>] = "active"
          BY <2>2, RowsArePairs DEF ListingTypes
        <5> QED BY <2>1, <4>1, <5>1 DEF Claim, RowClaim
      <4>2. CASE u # t
        <5>1. auction'[<<r, u>>] = auction[<<r, u>>] /\ closer' = closer
          BY <2>1, <2>2, <4>2, RowsArePairs DEF ListingTypes
        <5>2. Planned(r, u)' <=> Planned(r, u)
          BY <1>0, <1>3, <2>2, <4>2, CreateAskDoes DEF Planned, Becomes
        <5> QED BY <5>1, <5>2 DEF Claim, RowClaim
      <4> QED BY <4>1, <4>2
    <3>3. HeldAt(u) /\ KnownAt(u)
      BY DEF CustodyOK
    <3> QED BY <2>1, <2>2, <3>1, <3>2, <3>3, CustodyKept
  <2>3. CASE /\ auction' = auction
             /\ Becomes(r, req[r].kind, "done", NoToken, req[r].pool, {})
             /\ told \subseteq told'
             /\ {req[r].token} \cup req[r].todo \subseteq told'
    BY <2>1, <2>3, CustodyAfterFailure
  <2> QED BY <1>0, <1>3, <2>2, <2>3, CreateAskDoes
<1>4. ASSUME NEW r \in Requests, NEW t \in Tokens, UpdateToken(r, t)
      PROVE  CustodyOK'
  <2>1. /\ UNCHANGED <<owner, auction, closer, told, unsent, kept>>
        /\ req[r].kind = "update"
        /\ Becomes(r, req[r].kind, "exists", t, req[r].pool, req[r].todo \ {t})
    BY <1>0, <1>4, UpdateTokenDoes DEF rows, chain, history
  <2>2. ASSUME NEW u \in Tokens PROVE HeldAt(u)' /\ KnownAt(u)'
    <3>1. Planned(r, u)' <=> Planned(r, u)
      BY <2>1 DEF Planned, Becomes
    <3> QED BY <2>1, <3>1, CustodyOfPlan
  <2> QED BY <2>2 DEF CustodyOK
<1>5. ASSUME NEW r \in Requests, NEW t \in Tokens, TransferFinalized(r, t)
      PROVE  CustodyOK'
  <2>1. /\ UNCHANGED <<auction, closer>> /\ unsent \subseteq unsent' /\ kept \subseteq kept'
        /\ req[r].pc = "transfer" /\ PlanFor(r) /\ req[r].kind = "mass"
    BY <1>0, <1>5, TransferDoes DEF rows, PlanOK, PlanFor
  <2>2. PICK p \in {"next", "transfer"} :
          Becomes(r, req[r].kind, p, req[r].token, req[r].pool \ {t}, req[r].todo \cup {t})
    BY <1>0, <1>5, TransferDoes
  <2>3. \/ owner[t] = "admin" /\ owner' = [owner EXCEPT ![t] = "auction"] /\ told' = told \ {t}
        \/ unsent' = unsent \cup {<<r, t>>} /\ owner' = owner /\ told' = told
    BY <1>0, <1>5, TransferDoes DEF ToAuction
  <2>4. ASSUME NEW u \in Tokens \ {t} PROVE HeldAt(u)' /\ KnownAt(u)'
    <3>1. Planned(r, u)' <=> Planned(r, u)
      BY <2>1, <2>2 DEF Planned, Becomes
    <3>2. owner'[u] = owner[u] /\ (u \in told => u \in told')
      BY <1>0, <2>3
    <3> QED BY <2>1, <2>2, <3>1, <3>2, CustodyOfPlan
  <2>5. HeldAt(t)' /\ KnownAt(t)'
    <3>1. CASE owner[t] = "admin" /\ owner' = [owner EXCEPT ![t] = "auction"]
      <4>1. Claim(r, t)'
        BY <2>1, <2>2 DEF Claim, Planned, Becomes
      <4>2. \A q \in Requests \ {r} : Claim(q, t)' <=> Claim(q, t)
        BY <2>1, <2>2, OtherClaims
      <4>3. owner[t] # "auction" /\ owner'[t] = "auction" /\ HeldAt(t)
        BY <1>0, <3>1 DEF CustodyOK
      <4> QED BY <2>1, <4>1, <4>2, <4>3, CustodyOfNew
    <3>2. CASE unsent' = unsent \cup {<<r, t>>}
      <4>1. <<r, t>> \in unsent' /\ <<r, t>>[2] = t
        BY <3>2
      <4>2. Phantom(t)'
        BY <4>1 DEF Phantom
      <4> QED BY <4>2 DEF HeldAt, KnownAt
    <3> QED BY <2>3, <3>1, <3>2
  <2> QED BY <2>4, <2>5 DEF CustodyOK
<1>6. ASSUME NEW r \in Requests, NEW t \in Tokens, AtFixedPrice(r, t)
      PROVE  CustodyOK'
  <2>1. UNCHANGED <<auction, closer, told, unsent, kept>> /\ req[r].kind = "fix"
    BY <1>0, <1>6, FixPriceDoes DEF rows, history, AtFixedPrice
  <2>2. PICK pool, todo \in SUBSET Tokens :
          Becomes(r, req[r].kind, req[r].pc, req[r].token, pool, todo)
    BY <1>0, <1>6, FixPriceDoes DEF AtFixedPrice
  <2>3. \A u \in Tokens : \/ owner'[u] = owner[u]
                         \/ (owner[u] # "auction" /\ owner'[u] # "auction")
    BY <1>0, <1>6, FixPriceDoes DEF AtFixedPrice
  <2>4. ASSUME NEW u \in Tokens PROVE HeldAt(u)' /\ KnownAt(u)'
    <3>1. Planned(r, u)' <=> Planned(r, u)
      BY <2>1, <2>2 DEF Planned, Becomes
    <3> QED BY <2>1, <2>2, <2>3, <3>1, CustodyOfPlan
  <2> QED BY <2>4 DEF CustodyOK
<1>7. ASSUME NEW r \in Requests, CheckOwner(r)
      PROVE  CustodyOK'
  <2>1. UNCHANGED <<owner, auction, closer, unsent, kept>> /\ req[r].pc = "owner"
    BY <1>0, <1>7, CheckOwnerDoes DEF rows, chain
  <2>2. CASE /\ Becomes(r, req[r].kind, "save", req[r].token, req[r].pool, req[r].todo)
             /\ told' = told
    <3>1. ASSUME NEW u \in Tokens PROVE HeldAt(u)' /\ KnownAt(u)'
      <4>1. Planned(r, u)' <=> Planned(r, u)
        BY <2>1, <2>2 DEF Planned, Becomes
      <4> QED BY <2>1, <2>2, <4>1, CustodyOfPlan
    <3> QED BY <3>1 DEF CustodyOK
  <2>3. CASE /\ Becomes(r, req[r].kind, "done", NoToken, req[r].pool, {})
             /\ told \subseteq told'
             /\ req[r].kind \in {"create", "mass"} => {req[r].token} \cup req[r].todo \subseteq told'
    BY <2>1, <2>3, CustodyAfterFailure
  <2> QED BY <1>0, <1>7, <2>2, <2>3, CheckOwnerDoes
<1>8. ASSUME NEW r \in Requests, GetIfExists(r) \/ SaveSearchIndex(r)
      PROVE  CustodyOK'
  <2>1. UNCHANGED <<owner, auction, closer, unsent, kept>> /\ req[r].pc \in {"exists", "fetch"}
    BY <1>0, <1>8, GetIfExistsDoes, SaveSearchIndexDoes DEF rows, chain, history
  <2>2. ASSUME NEW p \in {"next", "done", "fetch"}, NEW v, NEW todo,
               Becomes(r, req[r].kind, p, v, req[r].pool, todo), todo = req[r].todo, told' = told
        PROVE  CustodyOK'
    <3>1. ASSUME NEW u \in Tokens PROVE HeldAt(u)' /\ KnownAt(u)'
      <4>1. Planned(r, u)' <=> Planned(r, u)
        BY <2>1, <2>2 DEF Planned, Becomes
      <4> QED BY <2>1, <2>2, <4>1, CustodyOfPlan
    <3> QED BY <3>1 DEF CustodyOK
  <2>3. CASE /\ Becomes(r, req[r].kind, "done", NoToken, req[r].pool, {})
             /\ told \subseteq told'
             /\ req[r].kind \in {"create", "mass"} => {req[r].token} \cup req[r].todo \subseteq told'
    BY <2>1, <2>3, CustodyAfterFailure
  <2>4. CASE told' = told /\ Becomes(r, req[r].kind, "fetch", req[r].token, req[r].pool, req[r].todo)
    BY <2>2, <2>4
  <2>5. CASE told' = told /\ Becomes(r, req[r].kind, "next", NoToken, req[r].pool, req[r].todo)
    BY <2>2, <2>5
  <2>6. CASE told' = told /\ req[r].todo = {} /\ Becomes(r, req[r].kind, "done", NoToken, req[r].pool, {})
    BY <2>2, <2>6
  <2>7. CASE GetIfExists(r)
    BY <1>0, <2>4, <2>5, <2>6, <2>7, GetIfExistsDoes DEF history
  <2>8. CASE SaveSearchIndex(r)
    BY <1>0, <2>3, <2>5, <2>6, <2>8, SaveSearchIndexDoes
  <2> QED BY <1>8, <2>7, <2>8
<1>9. ASSUME UNCHANGED <<req, told, unsent, kept>>,
             \A u \in Tokens : \/ owner'[u] = owner[u]
                             \/ (owner[u] # "auction" /\ owner'[u] # "auction"),
             \A u \in Tokens : \A q \in Requests : RowClaim(q, u)' <=> RowClaim(q, u)
      PROVE  CustodyOK'
  <2> SUFFICES ASSUME NEW u \in Tokens PROVE HeldAt(u)' /\ KnownAt(u)'
    BY DEF CustodyOK
  <2>1. \A q \in Requests : Claim(q, u)' <=> Claim(q, u)
    BY <1>9 DEF Claim, Planned
  <2>2. HeldAt(u) /\ KnownAt(u)
    BY DEF CustodyOK
  <2> QED BY <1>9, <2>1, <2>2, CustodyKept
<1>10. ASSUME UNCHANGED <<req, told, unsent, kept, auction, closer>>,
              \A u \in Tokens : \/ owner'[u] = owner[u]
                              \/ (owner[u] # "auction" /\ owner'[u] # "auction")
       PROVE  CustodyOK'
  <2>1. \A u \in Tokens : \A q \in Requests : RowClaim(q, u)' <=> RowClaim(q, u)
    BY <1>10 DEF RowClaim
  <2> QED BY <1>9, <1>10, <2>1
<1>11. ASSUME NEW t \in Tokens, Calls(t)
       PROVE  CustodyOK'
  <2>1. UNCHANGED <<req, told, unsent, kept, auction, closer>>
    BY <1>11 DEF Calls, CallAddAsk, CallTake, rows, history
  <2>2. \A u \in Tokens : \/ owner'[u] = owner[u]
                         \/ (owner[u] # "auction" /\ owner'[u] # "auction")
    BY <1>0, <1>11 DEF Calls, CallAddAsk, CallTake
  <2> QED BY <1>10, <2>1, <2>2
<1>12. ASSUME \/ ProcessAddAsk \/ ScanExists \/ ScanFetch \/ RegisterAsk
              \/ ProcessCancelAsk \/ ProcessBuyKSM \/ MassFixPriceCancel
       PROVE  CustodyOK'
  <2>1. UNCHANGED <<owner, req, told, unsent, kept, auction, closer>>
    BY <1>12 DEF ProcessAddAsk, ScanExists, ScanFetch, RegisterAsk, ProcessCancelAsk,
                 ProcessBuyKSM, MassFixPriceCancel, rows, chain, history
  <2> QED BY <1>10, <2>1
<1>13. ASSUME NEW r \in Requests, NEW t \in Tokens,
              CancelAuction(<<r, t>>) \/ CloseAuction(<<r, t>>) \/ Settle(<<r, t>>)
       PROVE  CustodyOK'
  <2>1. UNCHANGED <<owner, req, told, unsent, kept>>
    BY <1>13 DEF CancelAuction, CloseAuction, Settle, chain, history
  <2>2. ASSUME NEW u \in Tokens, NEW q \in Requests PROVE RowClaim(q, u)' <=> RowClaim(q, u)
    <3>1. CASE <<q, u>> # <<r, t>>
      <4>1. auction'[<<q, u>>] = auction[<<q, u>>] /\ closer'[<<q, u>>] = closer[<<q, u>>]
        BY <1>13, <3>1, RowsArePairs DEF CancelAuction, CloseAuction, Settle, ListingTypes
      <4> QED BY <4>1 DEF RowClaim
    <3>2. CASE <<q, u>> = <<r, t>>
      <4>1. CASE Settle(<<r, t>>)
        <5>1. closer[<<r, t>>] = "settle" /\ auction[<<r, t>>] # "active"
          BY <4>1, RowsArePairs DEF Settle, CloserOK
        <5>2. closer'[<<r, t>>] = "idle" /\ auction'[<<r, t>>] # "active"
          BY <4>1, <5>1, RowsArePairs DEF Settle, ListingTypes
        <5> QED BY <3>2, <5>1, <5>2 DEF RowClaim
      <4>2. CASE CancelAuction(<<r, t>>) \/ CloseAuction(<<r, t>>)
        <5>1. auction[<<r, t>>] = "active" /\ closer'[<<r, t>>] \in {"return", "sell"}
          <6>1. /\ auction[<<r, t>>] = "active"
                /\ \E what \in {"return", "sell"} : closer' = [closer EXCEPT ![<<r, t>>] = what]
            BY <4>2 DEF CancelAuction, CloseAuction
          <6> QED BY <6>1, RowsArePairs DEF ListingTypes
        <5> QED BY <3>2, <5>1 DEF RowClaim
      <4> QED BY <1>13, <4>1, <4>2
    <3> QED BY <3>1, <3>2
  <2> QED BY <1>9, <2>1, <2>2
<1>14. ASSUME NEW r \in Requests, NEW t \in Tokens, Deliver(<<r, t>>)
       PROVE  CustodyOK'
  <2> SUFFICES ASSUME NEW u \in Tokens PROVE HeldAt(u)' /\ KnownAt(u)'
    BY DEF CustodyOK
  <2>1. /\ UNCHANGED <<req, told, unsent, auction>> /\ kept \subseteq kept'
        /\ HeldAt(u) /\ KnownAt(u)
    BY <1>14 DEF Deliver, rows, CustodyOK
  <2>2. \A q \in Requests : <<q, u>> # <<r, t>> => (Claim(q, u)' <=> Claim(q, u))
    <3> SUFFICES ASSUME NEW q \in Requests, <<q, u>> # <<r, t>>
                 PROVE  Claim(q, u)' <=> Claim(q, u)
      OBVIOUS
    <3>1. closer'[<<q, u>>] = closer[<<q, u>>]
      BY <1>14, RowsArePairs DEF Deliver, ListingTypes
    <3> QED BY <2>1, <3>1 DEF Claim, RowClaim, Planned
  <2>3. CASE u # t
    <3>1. owner'[u] = owner[u]
      BY <1>0, <1>14, <2>3 DEF Deliver
    <3>2. \A q \in Requests : Claim(q, u)' <=> Claim(q, u)
      BY <2>2, <2>3
    <3> QED BY <2>1, <3>1, <3>2, CustodyKept
  <2>4. CASE u = t
    <3>1. Claim(r, t)
      BY <1>14 DEF Deliver, Claim, RowClaim
    <3>2. ~Claim(r, t)'
      <4>1. auction[<<r, t>>] \notin {"none", "active"}
        BY <1>14, RowsArePairs DEF Deliver, CloserOK
      <4>2. ~Planned(r, t)
        BY <4>1 DEF PlanOK, PlanFor
      <4>3. closer'[<<r, t>>] \in {"settle", "idle"}
        BY <1>14, RowsArePairs DEF Deliver, ListingTypes
      <4> QED BY <2>1, <4>1, <4>2, <4>3 DEF Claim, RowClaim, Planned
    <3>3. owner'[t] # "auction" \/ t \in kept'
      <4>1. r # Contract
        BY ListingAssumption
      <4>2. Seller(<<r, t>>) \in {"admin", "user"}
        BY <4>1 DEF Seller
      <4> QED BY <1>0, <1>14, <4>2 DEF Deliver
    <3>4. KnownAt(t)'
      BY <3>3 DEF KnownAt
    <3>5. CASE Phantom(t)
      BY <2>1, <2>4, <3>4, <3>5 DEF Phantom, HeldAt
    <3>6. CASE ~Phantom(t)
      <4>1. \A q \in Requests : Claim(q, t) => q = r
        BY <2>1, <2>4, <3>1, <3>6 DEF HeldAt
      <4>2. \A q \in Requests : ~Claim(q, t)'
        BY <2>2, <2>4, <3>2, <4>1
      <4> QED BY <2>4, <3>4, <4>2 DEF HeldAt
    <3> QED BY <3>5, <3>6
  <2> QED BY <2>3, <2>4
<1>15. ASSUME NEW r \in Requests, NEW t \in Tokens, TransferDropped(r, t)
       PROVE  CustodyOK'
  BY <1>10, <1>15 DEF TransferDropped, chain, rows
<1>16. ASSUME UNCHANGED <<chain, rows, index, req, scan, closer, history>> \/ UNCHANGED listingVars
       PROVE  CustodyOK'
  BY <1>10, <1>16 DEF chain, rows, history, listingVars
<1> QED BY <1>1, <1>2, <1>3, <1>4, <1>5, <1>6, <1>7, <1>8, <1>11, <1>12, <1>13, <1>14, <1>15, <1>16,
          Alternatives

-----------------------------------------------------------------------------
(* The asks of auctions.  The escrow does not touch the ask of an auction  *)
(* that was created when there was no call for its token left to scan: a   *)
(* new call needs the token, which the auction account holds.              *)

AskAt(r, t) ==
  auction[<<r, t>>] = "active" =>
    \/ Phantom(t)
    \/ <<r, t>> \in late
    \/ ask[<<r, t>>] = "active" /\ ~Unscanned(t)
AskOK == \A r \in Requests, t \in Tokens : AskAt(r, t)

LEMMA AskInit == ListingInit => AskOK
BY RowsArePairs DEF ListingInit, AskOK, AskAt

LEMMA AskKept ==
  ASSUME NEW r \in Requests, NEW t \in Tokens, AskAt(r, t),
         unsent \subseteq unsent', late \subseteq late',
         auction'[<<r, t>>] = "active" => auction[<<r, t>>] = "active",
         auction[<<r, t>>] = "active" /\ auction'[<<r, t>>] = "active" /\ ~Phantom(t)
           /\ ask[<<r, t>>] = "active" /\ ~Unscanned(t)
           => ask'[<<r, t>>] = "active" /\ ~Unscanned(t)'
  PROVE  AskAt(r, t)'
<1>1. CASE Phantom(t)
  BY <1>1, PhantomsStay DEF AskAt
<1>2. CASE ~Phantom(t)
  <2> SUFFICES ASSUME auction'[<<r, t>>] = "active", <<r, t>> \notin late'
               PROVE  ask'[<<r, t>>] = "active" /\ ~Unscanned(t)'
    BY DEF AskAt
  <2>1. ask[<<r, t>>] = "active" /\ ~Unscanned(t)
    BY <1>2 DEF AskAt
  <2> QED BY <1>2, <2>1
<1> QED BY <1>1, <1>2

\* The escrow takes a call: no other token comes to have one.
LEMMA ScannedCalls ==
  ASSUME calls \in Seq(CallType), calls # <<>>, calls' = Tail(calls)
  PROVE  /\ \E i \in DOMAIN calls : calls[i].token = Head(calls).token
         /\ \A t : (\E i \in DOMAIN calls' : calls'[i].token = t)
                     => \E i \in DOMAIN calls : calls[i].token = t
<1>1. 1 \in DOMAIN calls /\ Head(calls) = calls[1]
  OBVIOUS
<1>2. \A i \in DOMAIN calls' : i + 1 \in DOMAIN calls /\ calls'[i] = calls[i + 1]
  OBVIOUS
<1> QED BY <1>1, <1>2

LEMMA AppendedCalls ==
  ASSUME calls \in Seq(CallType), NEW c \in CallType, calls' = Append(calls, c)
  PROVE  \A t : (\E i \in DOMAIN calls' : calls'[i].token = t)
                   => t = c.token \/ \E i \in DOMAIN calls : calls[i].token = t
<1>1. \A i \in DOMAIN calls' : calls'[i] = c \/ (i \in DOMAIN calls /\ calls'[i] = calls[i])
  OBVIOUS
<1> QED BY <1>1

LEMMA AskStep ==
  ASSUME ListingTypes, PlanOK, CloserOK, CustodyOK, AskOK, [ListingNext]_listingVars
  PROVE  AskOK'
<1>0. /\ req \in [Requests -> RequestType] /\ owner \in [Tokens -> Owners]
      /\ calls \in Seq(CallType)
  BY DEF ListingTypes
\* What changes nothing that an auction's ask depends on.
<1>1. ASSUME UNCHANGED <<ask, auction, calls, scan>>, unsent \subseteq unsent', late' = late
      PROVE  AskOK'
  <2> SUFFICES ASSUME NEW r \in Requests, NEW t \in Tokens PROVE AskAt(r, t)'
    BY DEF AskOK
  <2>1. AskAt(r, t) /\ (~Unscanned(t) => ~Unscanned(t)')
    BY <1>1 DEF AskOK, Unscanned
  <2> QED BY <1>1, <2>1, AskKept
\* A call of the contract, made by somebody who holds the token.
<1>2. ASSUME NEW c \in CallType, owner[c.token] # "auction", calls' = Append(calls, c),
             UNCHANGED <<ask, auction, scan, unsent, late>>
      PROVE  AskOK'
  <2> SUFFICES ASSUME NEW r \in Requests, NEW t \in Tokens PROVE AskAt(r, t)'
    BY DEF AskOK
  <2>1. AskAt(r, t) /\ HeldAt(t)
    BY DEF AskOK, CustodyOK
  <2>2. ASSUME auction[<<r, t>>] = "active", ~Phantom(t), ~Unscanned(t)
        PROVE  ~Unscanned(t)'
    <3>1. owner[t] = "auction"
      BY <2>1, <2>2 DEF HeldAt, Claim, RowClaim
    <3>2. t # c.token
      BY <1>2, <3>1
    <3> QED BY <1>0, <1>2, <2>2, <3>2, AppendedCalls DEF Unscanned
  <2> QED BY <1>2, <2>1, <2>2, AskKept
\* A step of the escrow: it writes rows of its own, or of a token whose call it scans.
<1>3. ASSUME UNCHANGED <<auction, unsent, late>>,
             \A t \in Tokens : Unscanned(t)' => Unscanned(t),
             \A r \in Requests, t \in Tokens : ask'[<<r, t>>] # ask[<<r, t>>] => Unscanned(t)
      PROVE  AskOK'
  <2> SUFFICES ASSUME NEW r \in Requests, NEW t \in Tokens PROVE AskAt(r, t)'
    BY DEF AskOK
  <2>1. AskAt(r, t)
    BY DEF AskOK
  <2>2. ~Unscanned(t) => ask'[<<r, t>>] = ask[<<r, t>>] /\ ~Unscanned(t)'
    BY <1>3
  <2> QED BY <1>3, <2>1, <2>2, AskKept
<1>4. ASSUME NEW r \in Requests, NEW t \in Tokens,
             \/ CreateAuction(r, t) \/ Begins(r, t) \/ UpdateToken(r, t)
             \/ TransferFinalized(r, t) \/ TransferDropped(r, t)
      PROVE  AskOK'
  <2>1. UNCHANGED <<ask, auction, calls, scan>> /\ unsent \subseteq unsent' /\ late' = late
    BY <1>0, <1>4, CreateAuctionDoes, BeginsDoes, UpdateTokenDoes, TransferDoes
       DEF TransferDropped, rows, chain, history, Begins
  <2> QED BY <1>1, <2>1
<1>5. ASSUME NEW r \in Requests, NEW t \in Tokens, CreateAsk(r, t)
      PROVE  AskOK'
  <2>0. UNCHANGED <<unsent, calls, scan>>
    BY <1>0, <1>5, CreateAskDoes DEF chain
  <2>1. CASE UNCHANGED <<ask, auction, late>>
    BY <1>1, <2>0, <2>1
  <2>2. CASE /\ ask' = [ask EXCEPT ![<<r, t>>] = "active"]
             /\ auction' = [auction EXCEPT ![<<r, t>>] = "active"]
             /\ late' = IF Unscanned(t) THEN late \cup {<<r, t>>} ELSE late
    <3> SUFFICES ASSUME NEW q \in Requests, NEW u \in Tokens PROVE AskAt(q, u)'
      BY DEF AskOK
    <3>1. Unscanned(u)' <=> Unscanned(u)
      BY <2>0 DEF Unscanned
    <3>2. CASE <<q, u>> = <<r, t>>
      <4>1. ask'[<<r, t>>] = "active"
        BY <2>2, RowsArePairs DEF ListingTypes
      <4> QED BY <2>2, <3>1, <3>2, <4>1 DEF AskAt
    <3>3. CASE <<q, u>> # <<r, t>>
      <4>1. ask'[<<q, u>>] = ask[<<q, u>>] /\ auction'[<<q, u>>] = auction[<<q, u>>]
        BY <2>2, <3>3, RowsArePairs DEF ListingTypes
      <4>2. AskAt(q, u) /\ late \subseteq late'
        BY <2>2 DEF AskOK
      <4> QED BY <2>0, <3>1, <4>1, <4>2, AskKept
    <3> QED BY <3>2, <3>3
  <2> QED BY <1>0, <1>5, <2>1, <2>2, CreateAskDoes
<1>6. ASSUME NEW r \in Requests, NEW t \in Tokens, AtFixedPrice(r, t)
      PROVE  AskOK'
  <2> DEFINE c == [method |-> "addAsk", token |-> t, who |-> "admin"]
  <2>1. UNCHANGED <<ask, auction, scan, unsent, late>>
    BY <1>0, <1>6, FixPriceDoes DEF rows, history, AtFixedPrice
  <2>2. c \in CallType /\ c.token = t
    BY DEF CallType
  <2>3. calls' = calls \/ (owner[t] # "auction" /\ calls' = Append(calls, c))
    BY <1>0, <1>6, FixPriceDoes DEF AtFixedPrice
  <2> QED BY <1>1, <1>2, <2>1, <2>2, <2>3
<1>7. ASSUME NEW r \in Requests, CheckOwner(r) \/ GetIfExists(r) \/ SaveSearchIndex(r)
      PROVE  AskOK'
  <2>1. UNCHANGED <<ask, auction, calls, scan, unsent, late>>
    BY <1>0, <1>7, CheckOwnerDoes, GetIfExistsDoes, SaveSearchIndexDoes DEF rows, chain, history
  <2> QED BY <1>1, <2>1
<1>8. ASSUME NEW t \in Tokens, Calls(t)
      PROVE  AskOK'
  <2>1. UNCHANGED <<ask, auction, scan, unsent, late>> /\ owner[t] # "auction"
    BY <1>8 DEF Calls, CallAddAsk, CallTake, rows, history
  <2>2. PICK m \in {"addAsk", "cancelAsk", "buyKSM"} :
          calls' = Append(calls, [method |-> m, token |-> t, who |-> "user"])
    BY <1>8 DEF Calls, CallAddAsk, CallTake, Called
  <2> DEFINE c == [method |-> m, token |-> t, who |-> "user"]
  <2>3. c \in CallType /\ c.token = t
    BY DEF CallType
  <2> QED BY <1>2, <2>1, <2>2, <2>3
<1>9. ASSUME ProcessAddAsk \/ ProcessCancelAsk \/ ProcessBuyKSM
      PROVE  AskOK'
  <2>1. /\ calls # <<>> /\ calls' = Tail(calls) /\ scan.pc = "idle"
        /\ UNCHANGED <<auction, unsent, late>>
        /\ scan' = scan \/ scan'.token = Head(calls).token
    BY <1>9 DEF ProcessAddAsk, ProcessCancelAsk, ProcessBuyKSM, history
  <2>2. Unscanned(Head(calls).token)
    BY <1>0, <2>1, ScannedCalls DEF Unscanned
  <2>3. \A t \in Tokens : Unscanned(t)' => Unscanned(t)
    BY <1>0, <2>1, <2>2, ScannedCalls DEF Unscanned
  <2>4. \A r \in Requests, t \in Tokens :
          t # Head(calls).token => ask'[<<r, t>>] = ask[<<r, t>>]
    <3> SUFFICES ASSUME NEW r \in Requests, NEW t \in Tokens, t # Head(calls).token
                 PROVE  ask'[<<r, t>>] = ask[<<r, t>>]
      OBVIOUS
    <3>1. <<r, t>> \notin RowsOf(Head(calls).token)
      BY DEF RowsOf
    <3> QED BY <1>9, <3>1, RowsArePairs DEF ProcessAddAsk, ProcessCancelAsk, ProcessBuyKSM, WithAsks, Live
  <2> QED BY <1>3, <2>1, <2>2, <2>3, <2>4
<1>10. ASSUME ScanExists \/ ScanFetch \/ RegisterAsk
       PROVE  AskOK'
  <2>1. /\ UNCHANGED <<auction, unsent, late, calls>> /\ scan.pc # "idle"
        /\ scan'.token = scan.token \/ scan' = IdleScan
    BY <1>10 DEF ScanExists, ScanFetch, RegisterAsk, rows, history, chain, ListingTypes, ScanType
  <2>2. \A t \in Tokens : Unscanned(t)' => Unscanned(t)
    BY <2>1 DEF Unscanned, IdleScan
  <2>3. \A r \in Requests, t \in Tokens : ask'[<<r, t>>] = ask[<<r, t>>]
    <3> SUFFICES ASSUME NEW r \in Requests, NEW t \in Tokens
                 PROVE  ask'[<<r, t>>] = ask[<<r, t>>]
      OBVIOUS
    <3>1. <<r, t>> # <<Contract, scan.token>>
      BY ListingAssumption
    <3> QED BY <1>10, <3>1, RowsArePairs DEF ScanExists, ScanFetch, RegisterAsk, rows, ListingTypes
  <2> QED BY <1>3, <2>1, <2>2, <2>3
<1>11. CASE MassFixPriceCancel
  <2>1. UNCHANGED <<auction, calls, scan, unsent, late>>
    BY <1>11 DEF MassFixPriceCancel, chain, history
  <2>2. \A t \in Tokens : Unscanned(t)' => Unscanned(t)
    BY <2>1 DEF Unscanned
  <2>3. \A r \in Requests, t \in Tokens : ask'[<<r, t>>] = ask[<<r, t>>]
    <3> SUFFICES ASSUME NEW r \in Requests, NEW t \in Tokens
                 PROVE  ask'[<<r, t>>] = ask[<<r, t>>]
      OBVIOUS
    <3>1. <<r, t>> \notin {Contract} \X Tokens
      BY ListingAssumption
    <3> QED BY <1>11, <3>1, RowsArePairs DEF MassFixPriceCancel, WithAsks
  <2> QED BY <1>3, <2>1, <2>2, <2>3
<1>12. ASSUME NEW r \in Requests, NEW t \in Tokens,
              \/ CancelAuction(<<r, t>>) \/ CloseAuction(<<r, t>>)
              \/ Deliver(<<r, t>>) \/ Settle(<<r, t>>)
       PROVE  AskOK'
  <2> SUFFICES ASSUME NEW q \in Requests, NEW u \in Tokens PROVE AskAt(q, u)'
    BY DEF AskOK
  <2>1. UNCHANGED <<calls, scan, unsent, late>> /\ AskAt(q, u)
    BY <1>12 DEF CancelAuction, CloseAuction, Deliver, Settle, chain, history, AskOK
  <2>2. Unscanned(u)' <=> Unscanned(u)
    BY <2>1 DEF Unscanned
  <2>3. CASE <<q, u>> # <<r, t>>
    <3>1. ask'[<<q, u>>] = ask[<<q, u>>] /\ auction'[<<q, u>>] = auction[<<q, u>>]
      BY <1>12, <2>3, RowsArePairs DEF CancelAuction, CloseAuction, Deliver, Settle, rows, ListingTypes
    <3> QED BY <2>1, <2>2, <3>1, AskKept
  <2>4. CASE <<q, u>> = <<r, t>>
    <3>1. auction'[<<r, t>>] # "active"
      <4>1. CASE Deliver(<<r, t>>) \/ Settle(<<r, t>>)
        <5>1. auction[<<r, t>>] # "active"
          BY <4>1, RowsArePairs DEF Deliver, Settle, CloserOK
        <5> QED BY <4>1, <5>1, RowsArePairs DEF Deliver, Settle, rows, ListingTypes
      <4>2. CASE CancelAuction(<<r, t>>) \/ CloseAuction(<<r, t>>)
        <5>1. \/ auction' = [auction EXCEPT ![<<r, t>>] = "ended"]
              \/ auction' = [auction EXCEPT ![<<r, t>>] = "withdrawing"]
          BY <4>2 DEF CancelAuction, CloseAuction
        <5> QED BY <5>1, RowsArePairs DEF ListingTypes
      <4> QED BY <1>12, <4>1, <4>2
    <3> QED BY <2>4, <3>1 DEF AskAt
  <2> QED BY <2>3, <2>4
<1>13. ASSUME UNCHANGED <<chain, rows, index, req, scan, closer, history>> \/ UNCHANGED listingVars
       PROVE  AskOK'
  <2>1. UNCHANGED <<ask, auction, calls, scan, unsent, late>>
    BY <1>13 DEF chain, rows, history, listingVars
  <2> QED BY <1>1, <2>1
<1> QED BY <1>4, <1>5, <1>6, <1>7, <1>8, <1>9, <1>10, <1>11, <1>12, <1>13, Alternatives

-----------------------------------------------------------------------------
(* The index.  The escrow looks at the index before it registers an ask,   *)
(* so that its place counts as an offer already.                           *)

Offered(t) == \E x \in RowsOf(t) : ask[x] \in LiveStatus
Registering(t) == scan.pc = "register" /\ scan.token = t
Indexing(r, t) == req[r].token = t /\ req[r].pc \in {"exists", "fetch"}

IndexAt(t) ==
  index[t] = 0 /\ (Offered(t) \/ Registering(t)) =>
    t \in unread \/ \E r \in Requests : Indexing(r, t)
IndexOK == \A t \in Tokens : IndexAt(t)

LEMMA IndexInit == ListingInit => IndexOK
<1> SUFFICES ASSUME ListingInit, NEW t \in Tokens PROVE IndexAt(t)
  BY DEF IndexOK
<1>1. ~Offered(t)
  BY DEF ListingInit, Offered, RowsOf, LiveStatus
<1>2. ~Registering(t)
  BY DEF ListingInit, Registering, IdleScan
<1> QED BY <1>1, <1>2 DEF IndexAt

LEMMA IndexKept ==
  ASSUME NEW t \in Tokens, IndexAt(t), index'[t] = 0 => index[t] = 0,
         Offered(t)' => Offered(t) \/ Registering(t),
         Registering(t)' => Registering(t) \/ index[t] # 0,
         t \in unread => t \in unread',
         \A r \in Requests : Indexing(r, t) => Indexing(r, t)' \/ t \in unread' \/ index[t] # 0
  PROVE  IndexAt(t)'
<1> SUFFICES ASSUME index'[t] = 0, Offered(t)' \/ Registering(t)', t \notin unread'
             PROVE  \E r \in Requests : Indexing(r, t)'
  BY DEF IndexAt
<1>1. index[t] = 0 /\ (Offered(t) \/ Registering(t)) /\ t \notin unread
  OBVIOUS
<1>2. PICK r \in Requests : Indexing(r, t)
  BY <1>1 DEF IndexAt
<1>3. Indexing(r, t)'
  BY <1>1, <1>2
<1> QED BY <1>3

\* Asks that are written without any of them becoming an offer.
LEMMA NoNewOffers ==
  ASSUME ListingTypes, \A x \in Rows : ask'[x] \in LiveStatus => ask[x] \in LiveStatus, NEW t
  PROVE  Offered(t)' => Offered(t)
BY DEF Offered, RowsOf

\* The step of a request that was not indexing anything.
LEMMA IndexOfRequest ==
  ASSUME ListingTypes, IndexOK, NEW r \in Requests,
         NEW k, NEW p, NEW v, NEW pool, NEW todo, Becomes(r, k, p, v, pool, todo),
         req[r].pc \notin {"exists", "fetch"} \/ (p = req[r].pc /\ v = req[r].token),
         UNCHANGED <<ask, index, scan, unread>>
  PROVE  IndexOK'
<1> SUFFICES ASSUME NEW t \in Tokens PROVE IndexAt(t)'
  BY DEF IndexOK
<1>1. \A q \in Requests : Indexing(q, t) => Indexing(q, t)'
  BY DEF Indexing, Becomes
<1>2. (Offered(t)' => Offered(t)) /\ (Registering(t)' => Registering(t))
  BY DEF Offered, Registering
<1>3. IndexAt(t)
  BY DEF IndexOK
<1> QED BY <1>1, <1>2, <1>3, IndexKept

LEMMA IndexStep ==
  ASSUME ListingTypes, IndexOK, [ListingNext]_listingVars
  PROVE  IndexOK'
<1>0. req \in [Requests -> RequestType] /\ index \in [Tokens -> Nat]
  BY DEF ListingTypes
<1>1. ASSUME UNCHANGED <<index, req, scan, unread>>,
             \A x \in Rows : ask'[x] \in LiveStatus => ask[x] \in LiveStatus
      PROVE  IndexOK'
  <2> SUFFICES ASSUME NEW t \in Tokens PROVE IndexAt(t)'
    BY DEF IndexOK
  <2>1. /\ Offered(t)' => Offered(t)
        /\ Registering(t)' => Registering(t)
        /\ \A r \in Requests : Indexing(r, t) => Indexing(r, t)'
        /\ IndexAt(t)
    BY <1>1, NoNewOffers DEF Registering, Indexing, IndexOK
  <2> QED BY <1>1, <2>1, IndexKept
<1>2. ASSUME NEW r \in Requests, NEW t \in Tokens, CreateAuction(r, t)
      PROVE  IndexOK'
  <2>1. UNCHANGED <<ask, index, scan, unread>> /\ req[r].pc = "idle"
    BY <1>0, <1>2, CreateAuctionDoes DEF rows
  <2>2. PICK p \in Places, v \in {t, NoToken} : Becomes(r, "create", p, v, {}, {})
    BY <1>0, <1>2, CreateAuctionDoes DEF Places
  <2> QED BY <2>1, <2>2, IndexOfRequest
<1>3. ASSUME NEW r \in Requests, NEW t \in Tokens, Begins(r, t)
      PROVE  IndexOK'
  <2>1. UNCHANGED <<ask, index, scan, unread>> /\ req[r].pc = "idle"
    BY <1>0, <1>3, BeginsDoes DEF rows, history, Begins
  <2>2. PICK k \in Kinds, p \in Places, v \in {t, NoToken}, pool, todo \in SUBSET Tokens :
          Becomes(r, k, p, v, pool, todo)
    <3>1. AccountTokens \in SUBSET Tokens /\ {} \in SUBSET Tokens
      BY DEF AccountTokens
    <3> QED BY <1>0, <1>3, <3>1, BeginsDoes DEF Begins, Places, Kinds
  <2> QED BY <2>1, <2>2, IndexOfRequest
<1>4. ASSUME NEW r \in Requests, NEW t \in Tokens, TransferFinalized(r, t)
      PROVE  IndexOK'
  <2>1. UNCHANGED <<ask, index, scan, unread>> /\ req[r].pc = "transfer"
    BY <1>0, <1>4, TransferDoes DEF rows
  <2>2. PICK p \in Places :
          Becomes(r, req[r].kind, p, req[r].token, req[r].pool \ {t}, req[r].todo \cup {t})
    BY <1>0, <1>4, TransferDoes DEF Places
  <2> QED BY <2>1, <2>2, IndexOfRequest
<1>5. ASSUME NEW r \in Requests, NEW t \in Tokens, AtFixedPrice(r, t)
      PROVE  IndexOK'
  <2>1. UNCHANGED <<ask, index, scan, unread>>
    BY <1>0, <1>5, FixPriceDoes DEF rows, history, AtFixedPrice
  <2>2. PICK pool, todo \in SUBSET Tokens :
          Becomes(r, req[r].kind, req[r].pc, req[r].token, pool, todo)
    BY <1>0, <1>5, FixPriceDoes DEF AtFixedPrice
  <2> QED BY <2>1, <2>2, IndexOfRequest
<1>6. ASSUME NEW r \in Requests, CheckOwner(r)
      PROVE  IndexOK'
  <2>1. UNCHANGED <<ask, index, scan, unread>> /\ req[r].pc = "owner"
    BY <1>0, <1>6, CheckOwnerDoes DEF rows
  <2>2. \/ Becomes(r, req[r].kind, "save", req[r].token, req[r].pool, req[r].todo)
        \/ Becomes(r, req[r].kind, "done", NoToken, req[r].pool, {})
    BY <1>0, <1>6, CheckOwnerDoes
  <2> QED BY <2>1, <2>2, IndexOfRequest
<1>7. ASSUME NEW r \in Requests, NEW t \in Tokens, CreateAsk(r, t)
      PROVE  IndexOK'
  <2>1. UNCHANGED <<index, scan, unread>> /\ req[r].pc \in {"save", "next"}
    BY <1>0, <1>7, CreateAskDoes
  <2>2. CASE ask' = ask /\ Becomes(r, req[r].kind, "done", NoToken, req[r].pool, {})
    BY <2>1, <2>2, IndexOfRequest
  <2>3. CASE /\ ask' = [ask EXCEPT ![<<r, t>>] = "active"]
             /\ Becomes(r, req[r].kind, "exists", t, req[r].pool, req[r].todo \ {t})
    <3> SUFFICES ASSUME NEW u \in Tokens PROVE IndexAt(u)'
      BY DEF IndexOK
    <3>1. CASE u = t
      <4>1. Indexing(r, t)'
        BY <2>3 DEF Indexing, Becomes
      <4> QED BY <3>1, <4>1 DEF IndexAt
    <3>2. CASE u # t
      <4>1. \A q \in Requests : Indexing(q, u) => Indexing(q, u)'
        BY <2>1, <2>3 DEF Indexing, Becomes
      <4>2. \A x \in RowsOf(u) : ask'[x] = ask[x]
        BY <2>3, <3>2 DEF RowsOf, ListingTypes
      <4>3. (Offered(u)' => Offered(u)) /\ (Registering(u)' => Registering(u))
        BY <2>1, <4>2 DEF Offered, Registering
      <4>4. IndexAt(u)
        BY DEF IndexOK
      <4> QED BY <2>1, <4>1, <4>3, <4>4, IndexKept
    <3> QED BY <3>1, <3>2
  <2> QED BY <1>0, <1>7, <2>2, <2>3, CreateAskDoes
<1>8. ASSUME NEW r \in Requests, NEW t \in Tokens, UpdateToken(r, t)
      PROVE  IndexOK'
  <2>1. /\ UNCHANGED <<ask, scan, unread>> /\ req[r].pc = "next"
        /\ index' = [index EXCEPT ![t] = 0]
        /\ Becomes(r, req[r].kind, "exists", t, req[r].pool, req[r].todo \ {t})
    BY <1>0, <1>8, UpdateTokenDoes DEF rows, history, UpdateToken, At
  <2> SUFFICES ASSUME NEW u \in Tokens PROVE IndexAt(u)'
    BY DEF IndexOK
  <2>2. CASE u = t
    <3>1. Indexing(r, t)'
      BY <2>1 DEF Indexing, Becomes
    <3> QED BY <2>2, <3>1 DEF IndexAt
  <2>3. CASE u # t
    <3>1. \A q \in Requests : Indexing(q, u) => Indexing(q, u)'
      BY <2>1 DEF Indexing, Becomes
    <3>2. (Offered(u)' => Offered(u)) /\ (Registering(u)' => Registering(u))
      BY <2>1 DEF Offered, Registering
    <3>3. IndexAt(u) /\ index'[u] = index[u]
      BY <1>0, <2>1, <2>3 DEF IndexOK
    <3> QED BY <2>1, <3>1, <3>2, <3>3, IndexKept
  <2> QED BY <2>2, <2>3
<1>9. ASSUME NEW r \in Requests, GetIfExists(r)
      PROVE  IndexOK'
  <2> SUFFICES ASSUME NEW u \in Tokens PROVE IndexAt(u)'
    BY DEF IndexOK
  <2>1. UNCHANGED <<ask, index, scan, unread>>
    BY <1>0, <1>9, GetIfExistsDoes DEF rows, history
  <2>2. \A q \in Requests \ {r} : Indexing(q, u) => Indexing(q, u)'
    BY <1>0, <1>9, GetIfExistsDoes DEF Indexing, Becomes
  <2>3. Indexing(r, u) => Indexing(r, u)' \/ index[u] # 0
    <3>1. CASE index[req[r].token] > 0
      BY <1>0, <3>1 DEF Indexing
    <3>2. CASE Becomes(r, req[r].kind, "fetch", req[r].token, req[r].pool, req[r].todo)
      BY <3>2 DEF Indexing, Becomes
    <3> QED BY <1>0, <1>9, <3>1, <3>2, GetIfExistsDoes
  <2>4. (Offered(u)' => Offered(u)) /\ (Registering(u)' => Registering(u)) /\ IndexAt(u)
    BY <2>1 DEF Offered, Registering, IndexOK
  <2>5. \A q \in Requests : Indexing(q, u) => Indexing(q, u)' \/ u \in unread' \/ index[u] # 0
    BY <2>2, <2>3
  <2> QED BY <2>1, <2>4, <2>5, IndexKept
<1>10. ASSUME NEW r \in Requests, SaveSearchIndex(r)
       PROVE  IndexOK'
  <2> SUFFICES ASSUME NEW u \in Tokens PROVE IndexAt(u)'
    BY DEF IndexOK
  <2>1. UNCHANGED <<ask, scan>>
    BY <1>0, <1>10, SaveSearchIndexDoes DEF rows
  <2>2. \A q \in Requests \ {r} : Indexing(q, u) => Indexing(q, u)'
    BY <1>0, <1>10, SaveSearchIndexDoes DEF Indexing, Becomes
  <2>3. (Offered(u)' => Offered(u)) /\ (Registering(u)' => Registering(u)) /\ IndexAt(u)
    BY <2>1 DEF Offered, Registering, IndexOK
  <2>4. CASE /\ index' = [index EXCEPT ![req[r].token] = @ + 1]
             /\ unread' = unread \ {req[r].token}
    <3>1. CASE u = req[r].token
      <4>1. index'[u] # 0
        BY <1>0, <2>4, <3>1
      <4> QED BY <4>1 DEF IndexAt
    <3>2. CASE u # req[r].token
      <4>1. index'[u] = index[u] /\ (u \in unread => u \in unread') /\ ~Indexing(r, u)
        BY <1>0, <2>4, <3>2 DEF Indexing
      <4> QED BY <2>2, <2>3, <4>1, IndexKept
    <3> QED BY <3>1, <3>2
  <2>5. CASE index' = index /\ unread' = unread \cup {req[r].token}
    <3>1. Indexing(r, u) => u \in unread'
      BY <2>5 DEF Indexing
    <3>2. \A q \in Requests : Indexing(q, u) => Indexing(q, u)' \/ u \in unread' \/ index[u] # 0
      BY <2>2, <3>1
    <3> QED BY <2>3, <2>5, <3>2, IndexKept
  <2> QED BY <1>0, <1>10, <2>4, <2>5, SaveSearchIndexDoes
<1>11. CASE ProcessAddAsk \/ ScanExists \/ ScanFetch \/ RegisterAsk
  <2> SUFFICES ASSUME NEW u \in Tokens PROVE IndexAt(u)'
    BY DEF IndexOK
  <2>1. req' = req /\ IndexAt(u)
    BY <1>11 DEF ProcessAddAsk, ScanExists, ScanFetch, RegisterAsk, IndexOK
  <2>2. \A q \in Requests : Indexing(q, u) => Indexing(q, u)'
    BY <2>1 DEF Indexing
  <2>3. CASE ProcessAddAsk
    <3>1. UNCHANGED <<index, unread>> /\ ~Registering(u)'
      BY <2>3 DEF ProcessAddAsk, history, Registering
    <3>2. \A x \in Rows : ask'[x] \in LiveStatus => ask[x] \in LiveStatus
      BY <2>3 DEF ProcessAddAsk, WithAsks, LiveStatus
    <3> QED BY <2>1, <2>2, <3>1, <3>2, NoNewOffers, IndexKept
  <2>4. CASE ScanExists
    <3>1. UNCHANGED <<index, unread, ask>>
      BY <2>4 DEF ScanExists, history, rows
    <3>2. Registering(u)' => index[u] # 0
      BY <1>0, <2>4 DEF ScanExists, Registering, ListingTypes, ScanType
    <3>3. Offered(u)' => Offered(u)
      BY <3>1 DEF Offered
    <3> QED BY <2>1, <2>2, <3>1, <3>2, <3>3, IndexKept
  <2>5. CASE ScanFetch
    <3>1. ask' = ask
      BY <2>5 DEF ScanFetch, rows
    <3>2. Offered(u)' => Offered(u)
      BY <3>1 DEF Offered
    <3>3. CASE scan' = IdleScan /\ UNCHANGED <<index, unread>>
      <4>1. ~Registering(u)'
        BY <3>3 DEF Registering, IdleScan
      <4> QED BY <2>1, <2>2, <3>2, <3>3, <4>1, IndexKept
    <3>4. CASE /\ index' = [index EXCEPT ![scan.token] = @ + 1]
               /\ unread' = unread \ {scan.token}
               /\ scan' = [scan EXCEPT !.pc = "register"]
      <4>1. CASE u = scan.token
        <5>1. index'[u] # 0
          BY <1>0, <3>4, <4>1
        <5> QED BY <5>1 DEF IndexAt
      <4>2. CASE u # scan.token
        <5>1. index'[u] = index[u] /\ (u \in unread => u \in unread')
          BY <1>0, <3>4, <4>2
        <5>2. scan'.token = scan.token
          BY <3>4 DEF ListingTypes, ScanType
        <5>3. ~Registering(u)'
          BY <4>2, <5>2 DEF Registering
        <5> QED BY <2>1, <2>2, <3>2, <5>1, <5>3, IndexKept
      <4> QED BY <4>1, <4>2
    <3> QED BY <2>5, <3>3, <3>4 DEF ScanFetch
  <2>6. CASE RegisterAsk
    <3>1. UNCHANGED <<index, unread>> /\ scan.pc = "register" /\ ~Registering(u)'
      BY <2>6 DEF RegisterAsk, history, Registering, IdleScan
    <3>2. u # scan.token => \A x \in RowsOf(u) : ask'[x] = ask[x]
      BY <2>6 DEF RegisterAsk, RowsOf, ListingTypes
    <3>3. Offered(u)' => Offered(u) \/ Registering(u)
      BY <3>1, <3>2 DEF Offered, Registering
    <3> QED BY <2>1, <2>2, <3>1, <3>3, IndexKept
  <2> QED BY <1>11, <2>3, <2>4, <2>5, <2>6
<1>12. ASSUME ProcessCancelAsk \/ ProcessBuyKSM \/ MassFixPriceCancel
       PROVE  IndexOK'
  <2>1. UNCHANGED <<index, req, scan, unread>>
    BY <1>12 DEF ProcessCancelAsk, ProcessBuyKSM, MassFixPriceCancel, history
  <2>2. \A x \in Rows : ask'[x] \in LiveStatus => ask[x] \in LiveStatus
    BY <1>12 DEF ProcessCancelAsk, ProcessBuyKSM, MassFixPriceCancel, WithAsks, LiveStatus
  <2> QED BY <1>1, <2>1, <2>2
<1>13. ASSUME NEW r \in Requests, NEW t \in Tokens,
              \/ CancelAuction(<<r, t>>) \/ CloseAuction(<<r, t>>)
              \/ Deliver(<<r, t>>) \/ Settle(<<r, t>>)
       PROVE  IndexOK'
  <2>1. UNCHANGED <<index, req, scan, unread>>
    BY <1>13 DEF CancelAuction, CloseAuction, Deliver, Settle, history
  <2>2. \/ ask' = ask \/ ask' = [ask EXCEPT ![<<r, t>>] = "cancelled"]
        \/ ask' = [ask EXCEPT ![<<r, t>>] = "bought"]
    BY <1>13 DEF CancelAuction, CloseAuction, Deliver, Settle, rows
  <2>3. \A x \in Rows : ask'[x] \in LiveStatus => ask[x] \in LiveStatus
    BY <2>2, RowsArePairs DEF LiveStatus, ListingTypes
  <2> QED BY <1>1, <2>1, <2>3
<1>14. ASSUME NEW t \in Tokens, Calls(t)
       PROVE  IndexOK'
  BY <1>1, <1>14 DEF Calls, CallAddAsk, CallTake, rows, history
<1>15. ASSUME NEW r \in Requests, NEW t \in Tokens, TransferDropped(r, t)
       PROVE  IndexOK'
  BY <1>1, <1>15 DEF TransferDropped, rows
<1>16. ASSUME UNCHANGED <<chain, rows, index, req, scan, closer, history>> \/ UNCHANGED listingVars
       PROVE  IndexOK'
  BY <1>1, <1>16 DEF rows, history, listingVars
<1> QED BY <1>2, <1>3, <1>4, <1>5, <1>6, <1>7, <1>8, <1>9, <1>10, <1>11, <1>12, <1>13, <1>14, <1>15,
          <1>16, Alternatives

-----------------------------------------------------------------------------
(* The invariant and what it is for.                                       *)

ListingInv ==
  /\ ListingTypes /\ PlanOK /\ CloserOK
  /\ CustodyOK /\ AskOK /\ IndexOK

(* Of the steps of listing, whatever they interleave with, none leads out  *)
(* of the invariant: types, plans of requests, custody, asks and index.    *)
THEOREM ListingInvariant == ListingSpec => []ListingInv
<1>1. ListingInit => ListingInv
  BY TypesInit, PlanInit, CustodyInit, AskInit, IndexInit DEF ListingInv
<1>2. ListingInv /\ [ListingNext]_listingVars => ListingInv'
  BY TypesStep, PlanStep, CloserStep, CustodyStep, AskStep, IndexStep DEF ListingInv
<1> QED BY <1>1, <1>2, PTL DEF ListingSpec

LEMMA RowsHaveNames ==
  ASSUME ListingInv, NEW x \in Rows, auction[x] = "active"
  PROVE  \E r \in Requests, t \in Tokens : x = <<r, t>>
<1>1. PICK r \in Requests \cup {Contract}, t \in Tokens : x = <<r, t>>
  BY DEF Rows
<1>2. r # Contract
  BY <1>1 DEF ListingInv, CloserOK
<1> QED BY <1>1, <1>2

(* Every auction that runs has its token on the auction account, unless a  *)
(* mass sale took a failed transfer for a token: for any requests, tokens  *)
(* and faults.                                                             *)
THEOREM AuctionsAreBacked == ListingSpec => []AuctionBacked
<1>1. ListingInv => AuctionBacked
  <2> SUFFICES ASSUME ListingInv, NEW x \in Rows, auction[x] = "active"
               PROVE  owner[x[2]] = "auction" \/ Phantom(x[2])
    BY DEF AuctionBacked
  <2>1. PICK r \in Requests, t \in Tokens : x = <<r, t>>
    BY RowsHaveNames
  <2>2. HeldAt(t) /\ Claim(r, t) /\ x[2] = t
    BY <2>1 DEF ListingInv, CustodyOK, Claim, RowClaim
  <2> QED BY <2>2 DEF HeldAt
<1> QED BY <1>1, ListingInvariant, PTL

(* Every auction that runs has an active ask, unless it was created before *)
(* the escrow had scanned the calls for its token.                         *)
THEOREM AuctionsHaveAsks == ListingSpec => []AuctionHasAsk
<1>1. ListingInv => AuctionHasAsk
  <2> SUFFICES ASSUME ListingInv, NEW x \in Rows, auction[x] = "active"
               PROVE  ask[x] = "active" \/ x \in late \/ Phantom(x[2])
    BY DEF AuctionHasAsk
  <2>1. PICK r \in Requests, t \in Tokens : x = <<r, t>>
    BY RowsHaveNames
  <2>2. AskAt(r, t) /\ x[2] = t
    BY <2>1 DEF ListingInv, AskOK
  <2> QED BY <2>1, <2>2 DEF AskAt
<1> QED BY <1>1, ListingInvariant, PTL

(* No token stays on the auction account without an auction, a request at  *)
(* work on it or an error that says so, unless a mass sale hangs or took a *)
(* failed transfer for a token.                                            *)
THEOREM NoTokenIsStranded == ListingSpec => []NothingStranded
<1>1. ListingInv => NothingStranded
  <2> SUFFICES ASSUME ListingInv, NEW t \in Tokens, owner[t] = "auction", t \notin told \cup kept, ~Phantom(t)
               PROVE  \/ \E x \in RowsOf(t) : auction[x] = "active" \/ closer[x] \in {"return", "sell"}
                      \/ \E r \in Requests :
                           WorksOn(r, t) /\ (Hangs(r) => req[r].kind = "mass" /\ t \in req[r].todo)
    BY DEF NothingStranded
  <2>1. PICK r \in Requests : Claim(r, t)
    BY DEF ListingInv, CustodyOK, KnownAt
  <2>2. CASE RowClaim(r, t)
    <3>1. <<r, t>> \in RowsOf(t)
      BY RowsArePairs DEF RowsOf
    <3> QED BY <2>2, <3>1 DEF RowClaim
  <2>3. CASE Planned(r, t)
    <3>1. PlanFor(r)
      BY DEF ListingInv, PlanOK
    <3>2. CASE req[r].kind = "create" /\ req[r].pc \in {"owner", "save"} /\ req[r].token = t
      <4>1. WorksOn(r, t)
        BY <3>2 DEF WorksOn
      <4>2. ~Hangs(r)
        BY <3>1, <3>2 DEF PlanFor, Hangs
      <4> QED BY <4>1, <4>2
    <3>3. CASE req[r].kind = "mass" /\ t \in req[r].todo
      <4>1. WorksOn(r, t)
        BY <3>1, <3>3 DEF PlanFor, WorksOn
      <4> QED BY <3>3, <4>1
    <3> QED BY <2>3, <3>2, <3>3 DEF Planned
  <2> QED BY <2>1, <2>2, <2>3 DEF Claim
<1> QED BY <1>1, ListingInvariant, PTL

(* Every offer can be found, unless its token is being indexed or could not*)
(* be read the last time.                                                  *)
THEOREM OffersAreIndexed == ListingSpec => []OffersIndexed
<1>1. ListingInv => OffersIndexed
  <2> SUFFICES ASSUME ListingInv, NEW x \in Rows, ask[x] \in LiveStatus, index[x[2]] = 0
               PROVE  \/ x[2] \in unread
                      \/ \E r \in Requests : req[r].token = x[2] /\ req[r].pc \in {"exists", "fetch"}
    BY DEF OffersIndexed
  <2>1. x[2] \in Tokens /\ Offered(x[2])
    BY DEF Rows, Offered, RowsOf
  <2>2. IndexAt(x[2])
    BY <2>1 DEF ListingInv, IndexOK
  <2> QED BY <2>1, <2>2 DEF IndexAt, Indexing
<1> QED BY <1>1, ListingInvariant, PTL
=============================================================================
