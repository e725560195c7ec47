---------------------------- MODULE Marketplace ----------------------------
(***************************************************************************)
(* One key of the marketplace: the listing under it, its reviews, the      *)
(* orders of it, and the profile and earnings of one developer.            *)
(* MarketplaceService, MarketplaceModerationService,                       *)
(* MarketplaceOrderService and DeveloperProfileService write them; only    *)
(* purchase uses a transaction.  Every call is a sequence of awaits: a     *)
(* step here is one of them, and a call may stop for ever between two.     *)
(*                                                                         *)
(* DeveloperPayouts adds the payouts of the earnings to the same calls.    *)
(***************************************************************************)
EXTENDS Integers, Sequences, FiniteSetsExt, SequencesExt

CONSTANTS Calls,
          NoCall,
          Asks,            \* Asks[c]: what call c may ask for
          Dev,             \* the tenant whose profile is modelled
          NoTenant,        \* a listing without an owner
          Buyers,
          Share,           \* REVENUE_SHARE_BY_TIER, in per cent
          Tiers,           \* the tiers the profile may have, as indices
          MinTier, MinReviewCount, MinApprovals,  \* the auto-approve rule; in per cent
          Opening          \* what the developer has earned with other listings

Tenants == Buyers \cup {Dev}

MarketOps == {"submit", "approve", "reject", "delete", "update", "install",
              "review", "decide", "purchase", "register"}
PayoutOps == {"request", "approve-payout", "reject-payout", "cancel-payout", "process-payout"}
Decisions == {"APPROVED", "REJECTED", "CHANGES_REQUESTED"}

\* request: the number of the payout request an administrator decides on.
RequestType == [op : MarketOps \cup PayoutOps,
                tenant : Tenants \cup {NoTenant},
                decision : Decisions, amount : Int, request : Nat]

ASSUME MarketplaceConstants ==
  /\ NoCall \notin Calls /\ NoTenant \notin Tenants
  /\ Asks \in [Calls -> SUBSET RequestType]
  \* Buyers are tenants; prices, which no code checks, are taken not to be negative.
  /\ \A c \in Calls : \A r \in Asks[c] :
       /\ r.op = "purchase" => r.tenant \in Tenants
       /\ r.op \in {"submit", "update"} => r.amount >= 0
  /\ Tiers \subseteq Nat /\ 0 \in Tiers /\ Share \in [Tiers -> 0 .. 100]
  /\ MinTier \in Nat /\ MinReviewCount \in Nat /\ MinApprovals \in 0 .. 100
  /\ Opening \in Nat

VARIABLES listing,     \* the MarketplaceListing under the key
          reviews,     \* its MarketplaceReviewActions, oldest first
          orders,      \* the COMPLETED MarketplaceOrders of the key
          profile,     \* the DeveloperProfile of Dev
          earnings,    \* its DeveloperEarnings, oldest first
          pc, req,
          read,        \* read[c]: the listing as c found it
          share,       \* share[c]: the revenue share c calculates with
          publisher    \* history: the call that last published the listing

marketVars == <<listing, reviews, orders, profile, earnings, publisher>>
callVars == <<pc, req, read, share>>

\* id counts the listings the key has had.
Listings == [exists : BOOLEAN, id : Nat, owner : Tenants \cup {NoTenant}, price : Nat,
             published : BOOLEAN, downloads : Nat]
Orders == [buyer : Tenants, listing : Nat, amount : Nat, devEarnings : Nat,
           platformFee : Nat, owner : Tenants \cup {NoTenant}]
Profiles == [exists : BOOLEAN, tier : Tiers, totalSales : Nat, totalEarnings : Int]
Earnings == [type : {"sale", "payout"}, ref : Tenants \cup {NoTenant} \cup Nat, amount : Int]
Steps == {"idle", "existing", "share", "record", "weigh", "total", "paid", "pending",
          "write", "done", "refused"}

MarketTypeOK ==
  /\ listing \in Listings
  /\ reviews \in Seq([action : Decisions \cup {"SUBMITTED"}, by : Calls \cup {NoCall}])
  /\ orders \in SUBSET Orders
  /\ profile \in Profiles
  /\ earnings \in Seq(Earnings)
  /\ pc \in [Calls -> Steps]
  /\ req \in [Calls -> RequestType]
  /\ read \in [Calls -> Listings]
  /\ share \in [Calls -> 0 .. 100]
  /\ publisher \in Calls \cup {NoCall}

NoListing == [exists |-> FALSE, id |-> 0, owner |-> NoTenant, price |-> 0,
              published |-> FALSE, downloads |-> 0]
NoRequest == [op |-> "install", tenant |-> NoTenant, decision |-> "REJECTED",
              amount |-> 0, request |-> 0]

\* The developer has no profile, or one with an earlier sale.
Opened(t) == [exists |-> TRUE, tier |-> t, totalSales |-> 1, totalEarnings |-> Opening]
Unregistered == [exists |-> FALSE, tier |-> 0, totalSales |-> 0, totalEarnings |-> 0]

MarketInit ==
  /\ \E owner \in {NoTenant, Dev} :
       listing \in {NoListing, [NoListing EXCEPT !.exists = TRUE, !.id = 1, !.owner = owner,
                                                 !.price = 10, !.published = owner = Dev]}
  /\ reviews = <<>>
  /\ orders = {}
  /\ \/ profile = Unregistered /\ earnings = <<>>
     \/ /\ profile \in {Opened(t) : t \in Tiers}
        /\ earnings = <<[type |-> "sale", ref |-> NoTenant, amount |-> Opening]>>
  /\ pc = [c \in Calls |-> "idle"]
  /\ req = [c \in Calls |-> NoRequest]
  /\ read = [c \in Calls |-> NoListing]
  /\ share = [c \in Calls |-> 0]
  /\ publisher = NoCall

-----------------------------------------------------------------------------
Goto(c, step) == pc' = [pc EXCEPT ![c] = step]

\* c is asked for r and takes the listing as it is.
Begin(c, r) ==
  /\ pc[c] = "idle" /\ r \in Asks[c]
  /\ req' = [req EXCEPT ![c] = r]
  /\ read' = [read EXCEPT ![c] = listing]
  /\ UNCHANGED share

At(c, step, op) == pc[c] = step /\ req[c].op = op

\* An await of c other than its first.
Goes(c, step) == Goto(c, step) /\ UNCHANGED <<req, read, share>>

FoundByKey(c) == listing.exists  \* mutant

\* The writes name the row by the id that was read: Prisma throws when it is gone.
StillThere(c) == listing.exists /\ listing.id = read[c].id

\* submitListing, with and without an owner.
LookForKey(c) ==
  /\ \E r \in Asks[c] : /\ r.op = "submit" /\ Begin(c, r)
                        /\ Goto(c, IF listing.exists THEN "refused" ELSE "write")
  /\ UNCHANGED marketVars

\* What has an owner is published at once and passes for official.
SubmitListing(c) ==
  /\ At(c, "write", "submit")
  /\ IF listing.exists
       THEN Goes(c, "refused") /\ UNCHANGED marketVars         \* unique key
       ELSE /\ listing' = [NoListing EXCEPT
                             !.exists = TRUE, !.id = listing.id + 1,
                             !.owner = req[c].tenant, !.price = req[c].amount,
                             !.published = req[c].tenant # NoTenant]
            /\ publisher' = IF req[c].tenant # NoTenant THEN c ELSE NoCall
            /\ Goes(c, "done")
            /\ UNCHANGED <<reviews, orders, profile, earnings>>

\* findByKey and the check that follows it.
Admits(op) ==
  CASE op \in {"approve", "reject"} -> ~listing.published
    [] op = "install" -> listing.published
    [] OTHER -> TRUE

FindByKey(c) ==
  /\ \E r \in Asks[c] :
       /\ r.op \in {"approve", "reject", "delete", "update", "install"}
       /\ Begin(c, r)
       /\ Goto(c, IF listing.exists /\ Admits(r.op) THEN "write" ELSE "refused")
  /\ UNCHANGED marketVars

\* The listing's row is updated to new, unless it is gone.
UpdateRow(c, new) ==
  IF StillThere(c)
    THEN listing' = new /\ Goes(c, "done")
    ELSE Goes(c, "refused") /\ UNCHANGED listing

Publishes(c) == publisher' = IF StillThere(c) THEN c ELSE publisher

ApproveListing(c) ==
  /\ At(c, "write", "approve")
  /\ UpdateRow(c, [listing EXCEPT !.published = TRUE])
  /\ Publishes(c)
  /\ UNCHANGED <<reviews, orders, profile, earnings>>

UpdateListing(c) ==
  /\ At(c, "write", "update")
  /\ UpdateRow(c, [listing EXCEPT !.price = req[c].amount])
  /\ UNCHANGED <<reviews, orders, profile, earnings, publisher>>

InstallListing(c) ==
  /\ At(c, "write", "install")
  /\ UpdateRow(c, [listing EXCEPT !.downloads = @ + 1])
  /\ UNCHANGED <<reviews, orders, profile, earnings, publisher>>

\* rejectListing and deleteListing: orders forbid it (Restrict), reviews go along (Cascade).
DeleteListing(c) ==
  /\ pc[c] = "write" /\ req[c].op \in {"reject", "delete"}
  /\ IF StillThere(c) /\ orders = {}
       THEN /\ listing' = [NoListing EXCEPT !.id = listing.id]
            /\ reviews' = <<>> /\ publisher' = NoCall
            /\ Goes(c, "done")
       ELSE Goes(c, "refused") /\ UNCHANGED <<listing, reviews, publisher>>
  /\ UNCHANGED <<orders, profile, earnings>>

-----------------------------------------------------------------------------
(* Moderation: the action is recorded first, the listing updated after. *)

EnsureListingExists(c) ==
  /\ \E r \in Asks[c] : /\ r.op \in {"review", "decide"} /\ Begin(c, r)
                        /\ Goto(c, IF listing.exists THEN "record" ELSE "refused")
  /\ UNCHANGED marketVars

Record(c, action, step) ==
  /\ IF StillThere(c)
       THEN /\ reviews' = Append(reviews, [action |-> action, by |-> c])
            /\ Goes(c, step)
       ELSE Goes(c, "refused") /\ UNCHANGED reviews
  /\ UNCHANGED <<listing, orders, profile, earnings, publisher>>

SubmitForReview(c) == At(c, "record", "review") /\ Record(c, "SUBMITTED", "weigh")

Approvals == {i \in DOMAIN reviews : reviews[i].action = "APPROVED"}

\* isAutoApproved: the SUBMITTED just recorded counts against the developer.
IsAutoApproved(c) ==
  /\ req[c].tenant = Dev /\ profile.exists /\ profile.tier >= MinTier
  /\ (IF listing.exists /\ listing.owner = Dev THEN 1 ELSE 0) >= MinReviewCount
  /\ reviews # <<>>
  /\ Cardinality(Approvals) * 100 >= MinApprovals * Len(reviews)

\* An approved developer's submission goes on as a decision of the system.
CheckAutoApprove(c) ==
  /\ At(c, "weigh", "review")
  /\ IF IsAutoApproved(c)
       THEN /\ req' = [req EXCEPT ![c].op = "decide", ![c].decision = "APPROVED"]
            /\ Goto(c, "record") /\ UNCHANGED <<read, share>>
       ELSE Goes(c, "done")
  /\ UNCHANGED marketVars

RecordDecision(c) == At(c, "record", "decide") /\ Record(c, req[c].decision, "write")

ApplyDecision(c) ==
  LET isPublished == req[c].decision = "APPROVED"
  IN  /\ At(c, "write", "decide")
      /\ UpdateRow(c, [listing EXCEPT !.published = isPublished])
      /\ IF isPublished THEN Publishes(c) ELSE UNCHANGED publisher
      /\ UNCHANGED <<reviews, orders, profile, earnings>>

-----------------------------------------------------------------------------
(* Purchase and registration. *)

FindListing(c) ==
  /\ \E r \in Asks[c] :
       /\ r.op = "purchase" /\ Begin(c, r)
       /\ Goto(c, IF listing.exists /\ listing.published /\ listing.owner # r.tenant
                    THEN "existing" ELSE "refused")
  /\ UNCHANGED marketVars

Bought(tenant) == \E o \in orders : o.buyer = tenant

FindOrder(c) ==
  /\ At(c, "existing", "purchase")
  /\ Goes(c, IF Bought(req[c].tenant) THEN "refused" ELSE "share")
  /\ UNCHANGED marketVars

\* Without an owner or a profile the share is that of BRONZE.
GetShare(c) ==
  /\ At(c, "share", "purchase")
  /\ share' = [share EXCEPT ![c] = Share[IF read[c].owner = Dev /\ profile.exists
                                          THEN profile.tier ELSE 0]]
  /\ Goto(c, "write")
  /\ UNCHANGED <<req, read, marketVars>>

DevEarningsOfWhole(c) == read[c].price * share[c]  \* mutant

\* Math.round of a product that is never negative.
DevEarnings(c) == (read[c].price * share[c] + 50) \div 100

MayOrderAgain(c) == StillThere(c)  \* mutant

\* The order's foreign key, and one order of a key per buyer.
MayOrder(c) == StillThere(c) /\ ~Bought(req[c].tenant)

BookedEarning(c) == [type |-> "sale", ref |-> req[c].tenant, amount |-> DevEarnings(c)]

\* The transaction: order, download, earning, profile; the owner is the one read.
Purchase(c) ==
  /\ At(c, "write", "purchase")
  /\ IF MayOrder(c)
       THEN /\ orders' = orders \cup
                 {[buyer |-> req[c].tenant, listing |-> read[c].id, amount |-> read[c].price,
                   devEarnings |-> DevEarnings(c),
                   platformFee |-> read[c].price - DevEarnings(c), owner |-> read[c].owner]}
            /\ listing' = [listing EXCEPT !.downloads = @ + 1]
            /\ IF read[c].owner = Dev /\ profile.exists
                 THEN /\ earnings' = Append(earnings, BookedEarning(c))
                      /\ profile' = [profile EXCEPT !.totalSales = @ + 1,
                                                    !.totalEarnings = @ + DevEarnings(c)]
                 ELSE UNCHANGED <<earnings, profile>>
            /\ Goes(c, "done")
       ELSE Goes(c, "refused") /\ UNCHANGED <<orders, listing, earnings, profile>>
  /\ UNCHANGED <<reviews, publisher>>

GetProfile(c) ==
  /\ \E r \in Asks[c] : /\ r.op = "register" /\ Begin(c, r)
                        /\ Goto(c, IF profile.exists THEN "refused" ELSE "write")
  /\ UNCHANGED marketVars

Register(c) ==
  /\ At(c, "write", "register")
  /\ profile' = IF profile.exists THEN profile ELSE [Unregistered EXCEPT !.exists = TRUE]
  /\ Goes(c, IF profile.exists THEN "refused" ELSE "done")
  /\ UNCHANGED <<listing, reviews, orders, earnings, publisher>>

MarketStep(c) ==
  \/ LookForKey(c) \/ SubmitListing(c)
  \/ FindByKey(c) \/ ApproveListing(c) \/ UpdateListing(c) \/ InstallListing(c)
  \/ DeleteListing(c)
  \/ EnsureListingExists(c) \/ SubmitForReview(c) \/ CheckAutoApprove(c)
  \/ RecordDecision(c) \/ ApplyDecision(c)
  \/ FindListing(c) \/ FindOrder(c) \/ GetShare(c) \/ Purchase(c)
  \/ GetProfile(c) \/ Register(c)

-----------------------------------------------------------------------------
(* Properties. *)

Sales == {i \in DOMAIN earnings : earnings[i].type = "sale"}
SalesTo(tenant) == {i \in Sales : earnings[i].ref = tenant}

\* However purchases, registrations and changes of the listing interleave: a tenant
\* has bought the key once, never its own; the parts of the price add up; the listing
\* that was bought is still there and counts the download; an order is booked to its
\* developer once and with its own amount, or was made before there was a profile.
SalesAreBooked ==
  /\ \A o \in orders :
       /\ listing.exists /\ listing.id = o.listing /\ o.buyer # o.owner
       /\ o.devEarnings + o.platformFee = o.amount /\ o.platformFee >= 0
       /\ \A p \in orders : p.buyer = o.buyer => p = o
       /\ Cardinality(SalesTo(o.buyer)) <= 1
       /\ \A i \in SalesTo(o.buyer) : earnings[i].amount = o.devEarnings /\ o.owner = Dev
  /\ Cardinality(orders) <= listing.downloads
  /\ \A i \in Sales : earnings[i].ref # NoTenant => Bought(earnings[i].ref)
  /\ profile.totalSales = Cardinality(Sales)

\* What is public was made so by a call that saw this very listing: the approval of a
\* submission never publishes another one that took its key in the meantime.
PublishedAsApproved ==
  listing.exists /\ listing.published /\ publisher # NoCall =>
    \/ req[publisher].op = "submit" /\ req[publisher].tenant = listing.owner
    \/ read[publisher].id = listing.id /\ ~read[publisher].published
    \/ \E i \in DOMAIN reviews : reviews[i] = [action |-> "APPROVED", by |-> publisher]
=============================================================================
