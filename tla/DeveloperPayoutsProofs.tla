----------------------- MODULE DeveloperPayoutsProofs -----------------------
(***************************************************************************)
(* Theorems about DeveloperPayouts and the Marketplace it extends, for any *)
(* calls, tenants, requests, shares and limits.                            *)
(*                                                                         *)
(* Sales, publication and debits do not depend on what the sums come to:   *)
(* they hold whatever the checks of the available balance decide.  The     *)
(* balance of the books does, and so does what the available balance is.   *)
(***************************************************************************)
EXTENDS DeveloperPayouts, SumTheorems

(***************************************************************************)
(* The types.                                                              *)
(***************************************************************************)

RowTypes ==
  /\ listing \in Listings
  /\ reviews \in Seq([action : Decisions \cup {"SUBMITTED"}, by : Calls \cup {NoCall}])
  /\ orders \in SUBSET Orders
  /\ profile \in Profiles
  /\ earnings \in Seq(Earnings)
  /\ publisher \in Calls \cup {NoCall}
  /\ requests \in Seq(Requests)

CallTypes ==
  /\ pc \in [Calls -> Steps]
  /\ req \in [Calls -> RequestType]
  /\ read \in [Calls -> Listings]
  /\ share \in [Calls -> 0 .. 100]

\* Of what a call has read of the balance, the profile's total.
TotalsRead ==
  /\ sums = [c \in Calls |-> sums[c]]
  /\ \A c \in Calls : "total" \in DOMAIN sums[c] /\ sums[c].total \in Int

\* Buyers are tenants, prices are not negative.
Sane == \A c \in Calls : /\ req[c].op = "purchase" => req[c].tenant \in Tenants
                         /\ req[c].op \in {"submit", "update"} => req[c].amount \in Nat

TypeInv == RowTypes /\ CallTypes /\ TotalsRead /\ Sane

StepOf(c) == (MarketStep(c) /\ UNCHANGED payoutVars) \/ PayoutStep(c)

\* The actions with which a call begins, and those that only go on.
Asking(c) ==
  \/ LookForKey(c) \/ FindByKey(c) \/ EnsureListingExists(c) \/ FindListing(c)
  \/ GetProfile(c)

LEMMA TupleTypes ==
  ASSUME TypeInv, NEW c \in Calls
  PROVE  /\ pc[c] \in Steps /\ req[c] \in RequestType /\ read[c] \in Listings
         /\ share[c] \in 0 .. 100
         /\ req[c].tenant \in Tenants \cup {NoTenant} /\ req[c].amount \in Int
         /\ req[c].request \in Nat /\ req[c].decision \in Decisions
         /\ read[c].id \in Nat /\ read[c].price \in Nat /\ read[c].exists \in BOOLEAN
         /\ read[c].owner \in Tenants \cup {NoTenant} /\ read[c].published \in BOOLEAN
BY DEF TypeInv, CallTypes, RequestType, Listings

LEMMA RowFields ==
  ASSUME TypeInv
  PROVE  /\ listing.id \in Nat /\ listing.price \in Nat /\ listing.downloads \in Nat
         /\ listing.exists \in BOOLEAN /\ listing.published \in BOOLEAN
         /\ listing.owner \in Tenants \cup {NoTenant}
         /\ profile.exists \in BOOLEAN /\ profile.tier \in Tiers
         /\ profile.totalSales \in Nat /\ profile.totalEarnings \in Int
BY DEF TypeInv, RowTypes, Listings, Profiles

LEMMA NoListingType == NoListing \in Listings
BY DEF NoListing, Listings, Tenants

LEMMA InitTypes == Init => TypeInv
<1> SUFFICES ASSUME Init PROVE TypeInv
  OBVIOUS
<1>1. listing \in Listings
  <2>1. PICK owner \in {NoTenant, Dev} :
          listing \in {NoListing, [NoListing EXCEPT !.exists = TRUE, !.id = 1, !.owner = owner,
                                                    !.price = 10, !.published = owner = Dev]}
    BY DEF Init, MarketInit
  <2>2. owner \in Tenants \cup {NoTenant} /\ (owner = Dev) \in BOOLEAN
    BY DEF Tenants
  <2>3. ASSUME NEW b \in BOOLEAN
        PROVE  [NoListing EXCEPT !.exists = TRUE, !.id = 1, !.owner = owner,
                                 !.price = 10, !.published = b] \in Listings
    BY <2>2, NoListingType DEF Listings
  <2> QED
    BY <2>1, <2>2, <2>3, NoListingType
<1>2. profile \in Profiles /\ earnings \in Seq(Earnings)
  <2>1. Unregistered \in Profiles
    BY MarketplaceConstants DEF Unregistered, Profiles
  <2>2. \A t \in Tiers : Opened(t) \in Profiles
    BY MarketplaceConstants DEF Opened, Profiles
  <2> DEFINE sale == [type |-> "sale", ref |-> NoTenant, amount |-> Opening]
  <2>3. sale \in Earnings
    BY MarketplaceConstants DEF Earnings
  <2>4. \/ profile = Unregistered /\ earnings = <<>>
        \/ profile \in {Opened(t) : t \in Tiers} /\ earnings = <<sale>>
    BY DEF Init, MarketInit
  <2> HIDE DEF sale
  <2>5. <<sale>> \in Seq(Earnings) /\ <<>> \in Seq(Earnings)
    BY <2>3
  <2> QED
    BY <2>1, <2>2, <2>4, <2>5
<1>3. requests \in Seq(Requests)
  <2>1. Opening \div 2 \in Int
    BY MarketplaceConstants
  <2> DEFINE half == PendingOf(Opening \div 2)
  <2>2. half \in Requests
    BY <2>1 DEF PendingOf, Requests, Statuses
  <2>3. requests = <<>> \/ requests = <<half, half>>
    BY DEF Init
  <2> HIDE DEF half
  <2>4. <<half, half>> \in Seq(Requests) /\ <<>> \in Seq(Requests)
    BY <2>2
  <2> QED
    BY <2>3, <2>4
<1>4. NoRequest \in RequestType /\ NoRequest.op = "install"
  BY DEF NoRequest, RequestType, MarketOps, PayoutOps, Decisions
<1>5. CallTypes /\ Sane
  BY <1>4, NoListingType DEF Init, MarketInit, CallTypes, Sane, Steps
<1>6. TotalsRead
  BY DEF Init, NoSums, TotalsRead
<1>7. orders \in SUBSET Orders /\ publisher \in Calls \cup {NoCall}
      /\ reviews \in Seq([action : Decisions \cup {"SUBMITTED"}, by : Calls \cup {NoCall}])
  BY DEF Init, MarketInit
<1> QED
  BY <1>1, <1>2, <1>3, <1>5, <1>6, <1>7 DEF TypeInv, RowTypes

LEMMA BeginTypes ==
  ASSUME TypeInv, NEW c \in Calls, NEW r \in Asks[c], Begin(c, r),
         NEW step \in Steps, Goto(c, step)
  PROVE  CallTypes' /\ Sane'
<1>1. /\ r \in RequestType /\ (r.op = "purchase" => r.tenant \in Tenants)
      /\ r.op \in {"submit", "update"} => r.amount >= 0
  BY MarketplaceConstants
<1>2. r.amount \in Int
  BY <1>1 DEF RequestType
<1> QED
  BY <1>1, <1>2 DEF TypeInv, CallTypes, RowTypes, Sane, Begin, Goto

LEMMA GoesTypes ==
  ASSUME TypeInv, NEW c \in Calls, NEW step \in Steps, Goes(c, step)
  PROVE  CallTypes' /\ Sane'
BY DEF TypeInv, CallTypes, Sane, Goes, Goto

LEMMA AskingTypes ==
  ASSUME TypeInv, NEW c \in Calls, Asking(c) \/ AskBalance(c) \/ FindRequest(c)
  PROVE  CallTypes' /\ Sane'
<1>1. \E r \in Asks[c], step \in Steps : Begin(c, r) /\ Goto(c, step)
  <2>1. CASE LookForKey(c)
    BY <2>1 DEF LookForKey, Steps
  <2>2. CASE FindByKey(c)
    BY <2>2 DEF FindByKey, Steps
  <2>3. CASE EnsureListingExists(c)
    BY <2>3 DEF EnsureListingExists, Steps
  <2>4. CASE FindListing(c)
    BY <2>4 DEF FindListing, Steps
  <2>5. CASE GetProfile(c)
    BY <2>5 DEF GetProfile, Steps
  <2>6. CASE AskBalance(c)
    BY <2>6 DEF AskBalance, Steps
  <2>7. CASE FindRequest(c)
    BY <2>7 DEF FindRequest, Steps
  <2> QED
    BY <2>1, <2>2, <2>3, <2>4, <2>5, <2>6, <2>7 DEF Asking
<1> QED
  BY <1>1, BeginTypes

\* The developer's part is between nothing and the whole price.
LEMMA PartOfPrice ==
  ASSUME TypeInv, NEW c \in Calls
  PROVE  DevEarnings(c) \in 0 .. read[c].price
<1> DEFINE p == read[c].price
           s == share[c]
<1>1. p \in Nat /\ s \in 0 .. 100
  BY TupleTypes
<1>2. p * s \in Nat /\ p * s <= 100 * p
  BY <1>1, Z3
<1>3. DevEarnings(c) = (p * s + 50) \div 100
  BY DEF DevEarnings
<1> HIDE DEF p, s
<1>4. ASSUME NEW x \in Nat, x <= 100 * p PROVE (x + 50) \div 100 \in 0 .. p
  BY <1>1, <1>4, Z3
<1> QED
  BY <1>2, <1>3, <1>4 DEF p

LEMMA ListingTypes ==
  ASSUME TypeInv, NEW c \in Calls
  PROVE  /\ [listing EXCEPT !.published = TRUE] \in Listings
         /\ [listing EXCEPT !.published = FALSE] \in Listings
         /\ [listing EXCEPT !.downloads = @ + 1] \in Listings
         /\ [NoListing EXCEPT !.id = listing.id] \in Listings
         /\ req[c].op \in {"submit", "update"} => [listing EXCEPT !.price = req[c].amount] \in Listings
<1>1. listing.id \in Nat /\ listing.downloads + 1 \in Nat
  BY RowFields
<1>2. req[c].op \in {"submit", "update"} => req[c].amount \in Nat
  BY DEF TypeInv, Sane
<1> QED
  BY <1>1, <1>2, NoListingType DEF TypeInv, RowTypes, Listings

LEMMA UpdateRowTypes ==
  ASSUME TypeInv, NEW c \in Calls, NEW new \in Listings, UpdateRow(c, new)
  PROVE  listing' \in Listings /\ CallTypes' /\ Sane'
<1>1. CASE StillThere(c)
  BY <1>1, GoesTypes DEF UpdateRow, Steps
<1>2. CASE ~StillThere(c)
  BY <1>2, GoesTypes DEF UpdateRow, Steps, TypeInv, RowTypes
<1> QED
  BY <1>1, <1>2

LEMMA MarketTypes ==
  ASSUME TypeInv, NEW c \in Calls, MarketStep(c), UNCHANGED payoutVars
  PROVE  TypeInv'
<1> USE DEF TypeInv
<1>1. requests' \in Seq(Requests) /\ TotalsRead'
  BY DEF payoutVars, RowTypes, TotalsRead
<1>2. CASE Asking(c)
  <2>1. UNCHANGED marketVars
    BY <1>2 DEF Asking, LookForKey, FindByKey, EnsureListingExists, FindListing, GetProfile
  <2> QED
    BY <1>1, <1>2, <2>1, AskingTypes DEF RowTypes, marketVars
<1>3. CASE SubmitListing(c)
  <2>1. CASE listing.exists
    BY <1>1, <1>3, <2>1, GoesTypes DEF SubmitListing, RowTypes, marketVars, Steps
  <2>2. CASE ~listing.exists
    <3> DEFINE tenant == req[c].tenant
               amount == req[c].amount
               new(b) == [NoListing EXCEPT !.exists = TRUE, !.id = listing.id + 1,
                                           !.owner = tenant, !.price = amount, !.published = b]
    <3>1. tenant \in Tenants \cup {NoTenant} /\ amount \in Nat /\ listing.id + 1 \in Nat
      BY <1>3, TupleTypes, RowFields DEF Sane, SubmitListing, At
    <3>2. \A b \in BOOLEAN : new(b) \in Listings
      BY <3>1, NoListingType DEF Listings
    <3>3. /\ listing' = new(tenant # NoTenant) /\ publisher' \in {c, NoCall}
          /\ Goes(c, "done") /\ UNCHANGED <<reviews, orders, profile, earnings>>
      BY <1>3, <2>2 DEF SubmitListing
    <3>4. (tenant # NoTenant) \in BOOLEAN
      OBVIOUS
    <3> HIDE DEF new, tenant
    <3> QED
      BY <1>1, <3>2, <3>3, <3>4, GoesTypes DEF RowTypes, Steps
  <2> QED
    BY <2>1, <2>2
<1>4. CASE ApproveListing(c)
  <2>1. UpdateRow(c, [listing EXCEPT !.published = TRUE])
        /\ Publishes(c) /\ UNCHANGED <<reviews, orders, profile, earnings>>
    BY <1>4 DEF ApproveListing
  <2> QED
    BY <1>1, <2>1, ListingTypes, UpdateRowTypes DEF RowTypes, Publishes
<1>5. CASE UpdateListing(c)
  <2>1. UpdateRow(c, [listing EXCEPT !.price = req[c].amount]) /\ req[c].op = "update"
        /\ UNCHANGED <<reviews, orders, profile, earnings, publisher>>
    BY <1>5 DEF UpdateListing, At
  <2> QED
    BY <1>1, <2>1, ListingTypes, UpdateRowTypes DEF RowTypes
<1>6. CASE InstallListing(c)
  <2>1. UpdateRow(c, [listing EXCEPT !.downloads = @ + 1])
        /\ UNCHANGED <<reviews, orders, profile, earnings, publisher>>
    BY <1>6 DEF InstallListing
  <2> QED
    BY <1>1, <2>1, ListingTypes, UpdateRowTypes DEF RowTypes
<1>7. CASE DeleteListing(c)
  <2>1. UNCHANGED <<orders, profile, earnings>>
    BY <1>7 DEF DeleteListing
  <2>2. CASE StillThere(c) /\ orders = {}
    <3>1. /\ listing' = [NoListing EXCEPT !.id = listing.id]
          /\ reviews' = <<>> /\ publisher' = NoCall /\ Goes(c, "done")
      BY <1>7, <2>2 DEF DeleteListing
    <3>2. listing' \in Listings
      BY <3>1, ListingTypes
    <3>3. CallTypes' /\ Sane'
      BY <3>1, GoesTypes DEF Steps
    <3> QED
      BY <1>1, <2>1, <3>1, <3>2, <3>3 DEF RowTypes
  <2>3. CASE ~(StillThere(c) /\ orders = {})
    BY <1>1, <1>7, <2>1, <2>3, GoesTypes DEF DeleteListing, RowTypes, Steps
  <2> QED
    BY <2>2, <2>3
<1>8. ASSUME NEW action \in Decisions \cup {"SUBMITTED"}, NEW step \in Steps,
             Record(c, action, step)
      PROVE  TypeInv'
  <2>1. UNCHANGED <<listing, orders, profile, earnings, publisher>>
    BY <1>8 DEF Record
  <2>2. [action |-> action, by |-> c]
          \in [action : Decisions \cup {"SUBMITTED"}, by : Calls \cup {NoCall}]
    OBVIOUS
  <2>3. CASE StillThere(c)
    <3> DEFINE entry == [action |-> action, by |-> c]
    <3>1. reviews' = Append(reviews, entry) /\ Goes(c, step)
      BY <1>8, <2>3 DEF Record
    <3> HIDE DEF entry
    <3>2. reviews' \in Seq([action : Decisions \cup {"SUBMITTED"}, by : Calls \cup {NoCall}])
      BY <2>2, <3>1 DEF RowTypes, entry
    <3>3. CallTypes' /\ Sane'
      BY <3>1, GoesTypes
    <3> QED
      BY <1>1, <2>1, <3>2, <3>3 DEF RowTypes
  <2>4. CASE ~StillThere(c)
    BY <1>1, <1>8, <2>1, <2>4, GoesTypes DEF Record, RowTypes, Steps
  <2> QED
    BY <2>3, <2>4
<1>9. CASE SubmitForReview(c) \/ RecordDecision(c)
  BY <1>8, <1>9, TupleTypes DEF SubmitForReview, RecordDecision, Steps
<1>10. CASE CheckAutoApprove(c)
  <2>1. UNCHANGED marketVars
    BY <1>10 DEF CheckAutoApprove
  <2>2. CASE IsAutoApproved(c)
    <3>1. /\ req' = [req EXCEPT ![c] = [req[c] EXCEPT !.op = "decide", !.decision = "APPROVED"]]
          /\ pc' = [pc EXCEPT ![c] = "record"] /\ UNCHANGED <<read, share>>
      BY <1>10, <2>2 DEF CheckAutoApprove, Goto, CallTypes, RequestType
    <3>2. [req[c] EXCEPT !.op = "decide", !.decision = "APPROVED"] \in RequestType
      BY TupleTypes DEF RequestType, MarketOps, Decisions
    <3>3. CallTypes'
      BY <3>1, <3>2 DEF CallTypes, Steps
    <3>4. Sane'
      BY <3>1, <3>2 DEF CallTypes, Sane, RequestType
    <3> QED
      BY <1>1, <2>1, <3>3, <3>4 DEF RowTypes, marketVars
  <2>3. CASE ~IsAutoApproved(c)
    BY <1>1, <1>10, <2>1, <2>3, GoesTypes DEF CheckAutoApprove, RowTypes, marketVars, Steps
  <2> QED
    BY <2>2, <2>3
<1>11. CASE ApplyDecision(c)
  <2> DEFINE b == req[c].decision = "APPROVED"
  <2>1. UpdateRow(c, [listing EXCEPT !.published = b])
        /\ publisher' \in {c, publisher} /\ UNCHANGED <<reviews, orders, profile, earnings>>
    BY <1>11 DEF ApplyDecision, Publishes
  <2>2. b \in BOOLEAN
    OBVIOUS
  <2> HIDE DEF b
  <2>3. [listing EXCEPT !.published = b] \in Listings
    BY <2>2, ListingTypes
  <2> QED
    BY <1>1, <2>1, <2>3, UpdateRowTypes DEF RowTypes
<1>12. CASE FindOrder(c)
  BY <1>1, <1>12, GoesTypes DEF FindOrder, RowTypes, marketVars, Steps
<1>13. CASE GetShare(c)
  <2> DEFINE t == IF read[c].owner = Dev /\ profile.exists THEN profile.tier ELSE 0
  <2>1. t \in Tiers
    BY RowFields, MarketplaceConstants
  <2>2. Share[t] \in 0 .. 100
    BY <2>1, MarketplaceConstants
  <2>3. /\ share' = [share EXCEPT ![c] = Share[t]] /\ UNCHANGED <<req, read, marketVars>>
        /\ pc' = [pc EXCEPT ![c] = "write"]
    BY <1>13 DEF GetShare, Goto
  <2> HIDE DEF t
  <2> QED
    BY <1>1, <2>2, <2>3 DEF RowTypes, CallTypes, Sane, marketVars, Steps
<1>14. CASE Purchase(c)
  <2>1. UNCHANGED <<reviews, publisher>>
    BY <1>14 DEF Purchase
  <2>2. CASE MayOrder(c)
    <3> DEFINE e == DevEarnings(c)
               order == [buyer |-> req[c].tenant, listing |-> read[c].id,
                         amount |-> read[c].price, devEarnings |-> e,
                         platformFee |-> read[c].price - e, owner |-> read[c].owner]
               row == [type |-> "sale", ref |-> req[c].tenant, amount |-> e]
    <3>1. e \in 0 .. read[c].price /\ read[c].price \in Nat
      BY PartOfPrice, TupleTypes
    <3>2. req[c].tenant \in Tenants
      BY <1>14 DEF Purchase, At, Sane
    <3>3. /\ orders' = orders \cup {order}
          /\ listing' = [listing EXCEPT !.downloads = @ + 1]
          /\ \/ UNCHANGED <<earnings, profile>>
             \/ /\ earnings' = Append(earnings, row)
                /\ profile' = [profile EXCEPT !.totalSales = @ + 1, !.totalEarnings = @ + e]
          /\ Goes(c, "done")
      BY <1>14, <2>2 DEF Purchase, BookedEarning
    <3> HIDE DEF e
    <3>4. e \in Nat /\ read[c].price - e \in Nat
      BY <3>1
    <3>5. order \in Orders
      BY <3>1, <3>2, <3>4, TupleTypes DEF Orders
    <3>6. row \in Earnings
      BY <3>2, <3>4 DEF Earnings
    <3>7. profile' \in Profiles
      <4>1. profile.totalSales + 1 \in Nat /\ profile.totalEarnings + e \in Int
        BY <3>4, RowFields
      <4>2. \A m \in Nat, k \in Int :
              [profile EXCEPT !.totalSales = m, !.totalEarnings = k] \in Profiles
        BY DEF RowTypes, Profiles
      <4>3. \/ profile' = profile
            \/ profile' = [profile EXCEPT !.totalSales = profile.totalSales + 1,
                                          !.totalEarnings = profile.totalEarnings + e]
        BY <3>3
      <4> QED
        BY <4>1, <4>2, <4>3 DEF RowTypes
    <3> HIDE DEF order, row
    <3>8. earnings' \in Seq(Earnings) /\ orders' \in SUBSET Orders
      BY <3>3, <3>5, <3>6 DEF RowTypes
    <3>9. CallTypes' /\ Sane'
      BY <3>3, GoesTypes DEF Steps
    <3> QED
      BY <1>1, <2>1, <3>3, <3>7, <3>8, <3>9, ListingTypes DEF RowTypes
  <2>3. CASE ~MayOrder(c)
    BY <1>1, <1>14, <2>1, <2>3, GoesTypes DEF Purchase, RowTypes, Steps
  <2> QED
    BY <2>2, <2>3
<1>15. CASE Register(c)
  <2>1. [Unregistered EXCEPT !.exists = TRUE] \in Profiles
    <3>1. Unregistered \in Profiles
      BY MarketplaceConstants DEF Unregistered, Profiles
    <3> QED
      BY <3>1 DEF Profiles
  <2>2. profile' \in Profiles
    BY <1>15, <2>1 DEF Register, RowTypes
  <2>3. CallTypes' /\ Sane'
    BY <1>15, GoesTypes DEF Register, Steps
  <2> QED
    BY <1>1, <1>15, <2>2, <2>3 DEF Register, RowTypes
<1> QED
  BY <1>2, <1>3, <1>4, <1>5, <1>6, <1>7, <1>9, <1>10, <1>11, <1>12, <1>13, <1>14, <1>15
     DEF MarketStep, Asking

\* A decision on a request that is there.
LEMMA DecisionTypes ==
  ASSUME TypeInv, NEW n \in DOMAIN requests, NEW status \in Statuses,
         requests' = [requests EXCEPT ![n].status = status]
  PROVE  /\ requests' \in Seq(Requests) /\ DOMAIN requests' = DOMAIN requests
         /\ requests'[n].status = status
         /\ \A m \in DOMAIN requests : requests'[m].amount = requests[m].amount
         /\ \A m \in DOMAIN requests : m # n => requests'[m] = requests[m]
         /\ \A m \in DOMAIN requests : requests[m].amount \in Int
<1>1. requests \in Seq(Requests)
  BY DEF TypeInv, RowTypes
<1> DEFINE new == [requests[n] EXCEPT !.status = status]
<1>2. requests[n] \in Requests /\ \A m \in DOMAIN requests : requests[m] \in Requests
  BY <1>1
<1>3. /\ new \in Requests /\ new.status = status /\ new.amount = requests[n].amount
      /\ requests' = [requests EXCEPT ![n] = new]
  BY <1>2 DEF Requests
<1> HIDE DEF new
<1>4. requests' \in Seq(Requests) /\ DOMAIN requests' = DOMAIN requests
      /\ requests'[n] = new /\ \A m \in DOMAIN requests : m # n => requests'[m] = requests[m]
  BY <1>1, <1>3
<1> QED
  BY <1>2, <1>3, <1>4 DEF Requests

\* A call that decides on a request has found it.
Found(c) ==
  /\ pc[c] \in {"paid", "pending", "total", "write"} /\ req[c].op \in PayoutOps \ {"request"}
  => req[c].request \in DOMAIN requests

LEMMA PayoutTypes ==
  ASSUME TypeInv, NEW c \in Calls, Found(c), PayoutStep(c)
  PROVE  TypeInv'
<1> USE DEF TypeInv
<1>1. CASE AskBalance(c) \/ FindRequest(c)
  <2>1. UNCHANGED <<marketVars, payoutVars>>
    BY <1>1 DEF AskBalance, FindRequest
  <2> QED
    BY <1>1, <2>1, AskingTypes DEF RowTypes, TotalsRead, marketVars, payoutVars
<1>2. CASE ReadTotal(c)
  <2>1. TotalsRead'
    BY <1>2, RowFields DEF ReadTotal, TotalsRead
  <2> QED
    BY <1>2, <2>1, GoesTypes DEF ReadTotal, RowTypes, marketVars, Steps
<1>3. CASE ReadPaid(c) \/ ReadPending(c)
  <2>1. UNCHANGED <<marketVars, requests>>
    BY <1>3 DEF ReadPaid, ReadPending
  <2>2. TotalsRead'
    <3>1. ASSUME NEW v, sums' = [sums EXCEPT ![c].paid = v] PROVE TotalsRead'
      BY <3>1 DEF TotalsRead
    <3>2. ASSUME NEW v, sums' = [sums EXCEPT ![c].pending = v] PROVE TotalsRead'
      BY <3>2 DEF TotalsRead
    <3> QED
      BY <1>3, <3>1, <3>2 DEF ReadPaid, ReadPending
  <2>3. CallTypes' /\ Sane'
    BY <1>3, GoesTypes DEF ReadPaid, ReadPending, Steps
  <2> QED
    BY <2>1, <2>2, <2>3 DEF RowTypes, marketVars
<1>4. CASE RequestPayout(c)
  <2>1. PendingOf(req[c].amount) \in Requests
    BY TupleTypes DEF PendingOf, Requests, Statuses
  <2>2. requests' \in Seq(Requests)
    BY <1>4, <2>1 DEF RequestPayout, RowTypes
  <2>3. CallTypes' /\ Sane'
    BY <1>4, GoesTypes DEF RequestPayout, Steps
  <2> QED
    BY <1>4, <2>2, <2>3 DEF RequestPayout, RowTypes, TotalsRead, marketVars
<1>5. CASE ApprovePayout(c)
  <2> DEFINE n == req[c].request
             row == [type |-> "payout", ref |-> n, amount |-> -requests[n].amount]
  <2>1. n \in DOMAIN requests /\ n \in Nat
    BY <1>5, TupleTypes DEF ApprovePayout, At, Found, PayoutOps
  <2>2. requests' = [requests EXCEPT ![n].status = "APPROVED"]
    BY <1>5 DEF ApprovePayout, SetStatus
  <2>3. requests' \in Seq(Requests) /\ requests[n].amount \in Int
    BY <2>1, <2>2, DecisionTypes DEF Statuses
  <2>4. row \in Earnings
    BY <2>1, <2>3 DEF Earnings
  <2>5. earnings' = Append(earnings, row)
    BY <1>5 DEF ApprovePayout, Request
  <2>6. profile' \in Profiles
    <3>1. Debited(c) \in Int
      BY <2>3 DEF Debited, Request, TotalsRead
    <3>2. profile' = [profile EXCEPT !.totalEarnings = Debited(c)]
      BY <1>5 DEF ApprovePayout
    <3> QED
      BY <3>1, <3>2 DEF RowTypes, Profiles
  <2>7. CallTypes' /\ Sane'
    BY <1>5, GoesTypes DEF ApprovePayout, Steps
  <2> HIDE DEF row
  <2>8. earnings' \in Seq(Earnings)
    BY <2>4, <2>5 DEF RowTypes
  <2> QED
    BY <1>5, <2>3, <2>6, <2>7, <2>8 DEF ApprovePayout, RowTypes, TotalsRead
<1>6. CASE RejectPayout(c) \/ CancelPayout(c) \/ ProcessPayout(c)
  <2>1. PICK op \in {"reject-payout", "cancel-payout", "process-payout"},
             status \in {"REJECTED", "CANCELLED", "PROCESSED"} : Decide(c, op, status)
    BY <1>6 DEF RejectPayout, CancelPayout, ProcessPayout
  <2>2. req[c].request \in DOMAIN requests
    BY <2>1 DEF Decide, At, Found, PayoutOps
  <2>3. requests' \in Seq(Requests)
    BY <2>1, <2>2, DecisionTypes DEF Decide, SetStatus, Statuses
  <2>4. CallTypes' /\ Sane'
    BY <2>1, GoesTypes DEF Decide, Steps
  <2> QED
    BY <2>1, <2>3, <2>4 DEF Decide, RowTypes, TotalsRead, marketVars
<1> QED
  BY <1>1, <1>2, <1>3, <1>4, <1>5, <1>6 DEF PayoutStep

(***************************************************************************)
(* What a step leaves alone: the other calls, and all that is on record.   *)
(***************************************************************************)

OthersRest(c) ==
  \A d \in Calls : d # c => pc'[d] = pc[d] /\ req'[d] = req[d] /\ read'[d] = read[d]

Grows ==
  /\ DOMAIN requests \subseteq DOMAIN requests'
  /\ \A n \in DOMAIN requests : requests'[n].amount = requests[n].amount
  /\ DOMAIN earnings \subseteq DOMAIN earnings'
  /\ \A i \in DOMAIN earnings : earnings'[i] = earnings[i]

LEMMA StepOthers ==
  ASSUME TypeInv, NEW c \in Calls, StepOf(c)
  PROVE  OthersRest(c)
<1>1. \A step : Goes(c, step) => OthersRest(c)
  BY DEF TypeInv, CallTypes, Goes, Goto, OthersRest
<1>2. \A r, step : Begin(c, r) /\ Goto(c, step) => OthersRest(c)
  BY DEF TypeInv, CallTypes, Begin, Goto, OthersRest
<1>3. CASE Asking(c) \/ AskBalance(c) \/ FindRequest(c)
  BY <1>2, <1>3 DEF Asking, LookForKey, FindByKey, EnsureListingExists, FindListing,
                    GetProfile, AskBalance, FindRequest
<1>4. CASE GetShare(c) \/ (CheckAutoApprove(c) /\ IsAutoApproved(c))
  BY <1>4 DEF GetShare, CheckAutoApprove, Goto, OthersRest, TypeInv, CallTypes
<1>5. CASE CheckAutoApprove(c) /\ ~IsAutoApproved(c)
  BY <1>1, <1>5 DEF CheckAutoApprove
<1>6. CASE SubmitListing(c) \/ DeleteListing(c) \/ Purchase(c) \/ FindOrder(c) \/ Register(c)
  BY <1>1, <1>6 DEF SubmitListing, DeleteListing, Purchase, FindOrder, Register
<1>7. CASE ApproveListing(c) \/ UpdateListing(c) \/ InstallListing(c) \/ ApplyDecision(c)
  BY <1>1, <1>7 DEF ApproveListing, UpdateListing, InstallListing, ApplyDecision, UpdateRow
<1>8. CASE SubmitForReview(c) \/ RecordDecision(c)
  BY <1>1, <1>8 DEF SubmitForReview, RecordDecision, Record
<1>9. CASE \/ ReadTotal(c) \/ ReadPaid(c) \/ ReadPending(c) \/ RequestPayout(c)
           \/ ApprovePayout(c) \/ RejectPayout(c) \/ CancelPayout(c) \/ ProcessPayout(c)
  BY <1>1, <1>9 DEF ReadTotal, ReadPaid, ReadPending, RequestPayout, ApprovePayout,
                    RejectPayout, CancelPayout, ProcessPayout, Decide
<1> QED
  BY <1>3, <1>4, <1>5, <1>6, <1>7, <1>8, <1>9 DEF StepOf, MarketStep, PayoutStep, Asking

\* What the marketplace does to the earnings: nothing, or a sale at the end.
LEMMA MarketEarnings ==
  ASSUME TypeInv, NEW c \in Calls, MarketStep(c)
  PROVE  \/ UNCHANGED earnings
         \/ Purchase(c) /\ MayOrder(c) /\ earnings' = Append(earnings, BookedEarning(c))
BY DEF MarketStep, LookForKey, SubmitListing, FindByKey, ApproveListing, UpdateListing,
       InstallListing, DeleteListing, EnsureListingExists, SubmitForReview, CheckAutoApprove,
       RecordDecision, ApplyDecision, Record, FindListing, FindOrder, GetShare, Purchase,
       GetProfile, Register, marketVars

LEMMA MarketOpsOnly ==
  ASSUME TypeInv, NEW c \in Calls, MarketStep(c)
  PROVE  req'[c].op \in MarketOps
<1> USE DEF TypeInv, CallTypes, MarketOps
<1>1. \A step : Goes(c, step) => req'[c] = req[c]
  BY DEF Goes
<1>2. ASSUME NEW r \in Asks[c], Begin(c, r), r.op \in MarketOps PROVE req'[c].op \in MarketOps
  BY <1>2 DEF Begin
<1>3. CASE Asking(c)
  BY <1>2, <1>3 DEF Asking, LookForKey, FindByKey, EnsureListingExists, FindListing, GetProfile
<1>4. CASE CheckAutoApprove(c) /\ IsAutoApproved(c)
  <2>1. req' = [req EXCEPT ![c] = [req[c] EXCEPT !.op = "decide", !.decision = "APPROVED"]]
    BY <1>4 DEF CheckAutoApprove
  <2> QED
    BY <2>1 DEF RequestType
<1>5. CASE CheckAutoApprove(c) /\ ~IsAutoApproved(c)
  BY <1>1, <1>5 DEF CheckAutoApprove, At
<1>6. CASE \/ SubmitListing(c) \/ DeleteListing(c) \/ Purchase(c) \/ FindOrder(c)
           \/ Register(c) \/ GetShare(c)
  BY <1>1, <1>6 DEF SubmitListing, DeleteListing, Purchase, FindOrder, Register, GetShare, At
<1>7. CASE ApproveListing(c) \/ UpdateListing(c) \/ InstallListing(c) \/ ApplyDecision(c)
  BY <1>1, <1>7 DEF ApproveListing, UpdateListing, InstallListing, ApplyDecision, UpdateRow, At
<1>8. CASE SubmitForReview(c) \/ RecordDecision(c)
  BY <1>1, <1>8 DEF SubmitForReview, RecordDecision, Record, At
<1> QED
  BY <1>3, <1>4, <1>5, <1>6, <1>7, <1>8 DEF MarketStep, Asking

LEMMA OpsApart == MarketOps \cap PayoutOps = {}
BY DEF MarketOps, PayoutOps

LEMMA AppendEarning ==
  ASSUME TypeInv, NEW e \in Earnings, earnings' = Append(earnings, e)
  PROVE  /\ DOMAIN earnings' = DOMAIN earnings \cup {Len(earnings) + 1}
         /\ Len(earnings) + 1 \notin DOMAIN earnings /\ Len(earnings) \in Nat
         /\ earnings'[Len(earnings) + 1] = e
         /\ \A i \in DOMAIN earnings : earnings'[i] = earnings[i]
<1>1. earnings \in Seq(Earnings)
  BY DEF TypeInv, RowTypes
<1> QED
  BY <1>1

LEMMA BookedType ==
  ASSUME TypeInv, NEW c \in Calls, Purchase(c)
  PROVE  BookedEarning(c) \in Earnings
<1>1. DevEarnings(c) \in Int
  BY PartOfPrice, TupleTypes
<1>2. req[c].tenant \in Tenants
  BY DEF Purchase, At, TypeInv, Sane
<1> QED
  BY <1>1, <1>2 DEF BookedEarning, Earnings

(***************************************************************************)
(* Payouts are debited.                                                    *)
(***************************************************************************)

DebitOf(n) == \E i \in DebitsOf(n) : earnings[i].amount = -requests[n].amount

\* Nothing takes an approval back under a call that is about to process it: the debit
\* it has come upon stays.
Held(c) ==
  /\ Found(c)
  /\ pc[c] \in {"paid", "pending", "total", "write"} /\ req[c].op = "process-payout"
       => DebitOf(req[c].request)

DebitInv == TypeInv /\ (\A c \in Calls : Held(c)) /\ PayoutsAreDebited

LEMMA StepGrows ==
  ASSUME DebitInv, NEW c \in Calls, StepOf(c)
  PROVE  Grows
<1> USE DEF DebitInv
<1>1. CASE MarketStep(c) /\ UNCHANGED payoutVars
  <2>1. UNCHANGED requests
    BY <1>1 DEF payoutVars
  <2>2. CASE UNCHANGED earnings
    BY <2>1, <2>2 DEF Grows
  <2>3. CASE Purchase(c) /\ earnings' = Append(earnings, BookedEarning(c))
    BY <2>1, <2>3, BookedType, AppendEarning DEF Grows
  <2> QED
    BY <1>1, <2>2, <2>3, MarketEarnings
<1>2. CASE AskBalance(c) \/ FindRequest(c) \/ ReadTotal(c) \/ ReadPaid(c) \/ ReadPending(c)
  BY <1>2 DEF AskBalance, FindRequest, ReadTotal, ReadPaid, ReadPending, marketVars,
              payoutVars, Grows
<1>3. CASE RequestPayout(c)
  <2> DEFINE e == PendingOf(req[c].amount)
  <2>1. requests' = Append(requests, e) /\ UNCHANGED earnings
    BY <1>3 DEF RequestPayout, marketVars
  <2> HIDE DEF e
  <2>2. \A n \in DOMAIN requests : n \in DOMAIN requests' /\ requests'[n] = requests[n]
    BY <2>1 DEF TypeInv, RowTypes
  <2> QED
    BY <2>1, <2>2 DEF Grows
<1>4. CASE ApprovePayout(c)
  <2> DEFINE n == req[c].request
             e == [type |-> "payout", ref |-> n, amount |-> -requests[n].amount]
  <2>1. n \in DOMAIN requests /\ n \in Nat
    BY <1>4, TupleTypes DEF ApprovePayout, At, Held, Found, PayoutOps
  <2>2. requests' = [requests EXCEPT ![n].status = "APPROVED"]
        /\ earnings' = Append(earnings, e)
    BY <1>4 DEF ApprovePayout, SetStatus, Request
  <2>3. /\ DOMAIN requests' = DOMAIN requests
        /\ \A m \in DOMAIN requests : requests'[m].amount = requests[m].amount
        /\ requests[n].amount \in Int
    BY <2>1, <2>2, DecisionTypes DEF Statuses
  <2>4. e \in Earnings
    BY <2>1, <2>3 DEF Earnings
  <2> HIDE DEF e
  <2> QED
    BY <2>2, <2>3, <2>4, AppendEarning DEF Grows
<1>5. CASE RejectPayout(c) \/ CancelPayout(c) \/ ProcessPayout(c)
  <2>1. PICK op \in {"reject-payout", "cancel-payout", "process-payout"},
             status \in {"REJECTED", "CANCELLED", "PROCESSED"} : Decide(c, op, status)
    BY <1>5 DEF RejectPayout, CancelPayout, ProcessPayout
  <2>2. req[c].request \in DOMAIN requests
    BY <2>1 DEF Decide, At, Held, Found, PayoutOps
  <2>3. /\ DOMAIN requests' = DOMAIN requests /\ UNCHANGED earnings
        /\ \A m \in DOMAIN requests : requests'[m].amount = requests[m].amount
    BY <2>1, <2>2, DecisionTypes DEF Decide, SetStatus, Statuses, marketVars
  <2> QED
    BY <2>3 DEF Grows
<1> QED
  BY <1>1, <1>2, <1>3, <1>4, <1>5 DEF StepOf, PayoutStep

\* A debit stays on record.
LEMMA DebitStays ==
  ASSUME Grows, NEW n \in DOMAIN requests, DebitOf(n)
  PROVE  DebitOf(n)'
BY DEF Grows, DebitOf, DebitsOf, Payouts

LEMMA InitDebit == Init => DebitInv
<1> SUFFICES ASSUME Init PROVE DebitInv
  OBVIOUS
<1>1. \A n \in DOMAIN requests : requests[n].status = "PENDING"
  BY DEF Init, PendingOf
<1>2. PayoutsAreDebited
  BY <1>1 DEF PayoutsAreDebited
<1>3. \A c \in Calls : Held(c)
  BY DEF Init, MarketInit, Held, Found
<1> QED
  BY <1>2, <1>3, InitTypes DEF DebitInv

LEMMA StepDebit ==
  ASSUME DebitInv, [Next]_vars
  PROVE  DebitInv'
<1> USE DEF DebitInv
<1>1. CASE UNCHANGED vars
  BY <1>1 DEF vars, marketVars, callVars, payoutVars, TypeInv, RowTypes, CallTypes, TotalsRead,
              Sane, Held, Found, DebitOf, DebitsOf, Payouts, PayoutsAreDebited
<1>2. ASSUME NEW c \in Calls, StepOf(c) PROVE DebitInv'
  <2>1. TypeInv'
    BY <1>2, MarketTypes, PayoutTypes DEF StepOf, Held
  <2>2. Grows /\ OthersRest(c)
    BY <1>2, StepGrows, StepOthers
  <2>3. \A d \in Calls : d # c => Held(d)'
    <3> SUFFICES ASSUME NEW d \in Calls, d # c PROVE Held(d)'
      OBVIOUS
    <3>1. Held(d) /\ pc'[d] = pc[d] /\ req'[d] = req[d]
      BY <2>2 DEF OthersRest
    <3>2. Found(d)'
      BY <2>2, <3>1 DEF Held, Found, Grows
    <3>3. ASSUME pc[d] \in {"paid", "pending", "total", "write"},
                 req[d].op = "process-payout"
          PROVE  DebitOf(req[d].request)'
      <4>1. req[d].request \in DOMAIN requests /\ DebitOf(req[d].request)
        BY <3>1, <3>3 DEF Held, Found, PayoutOps
      <4>2. \A n \in DOMAIN requests : DebitOf(n) => DebitOf(n)'
        BY <2>2, DebitStays
      <4> QED
        BY <3>1, <4>1, <4>2 DEF DebitOf, DebitsOf, Payouts
    <3> QED
      BY <3>1, <3>2, <3>3 DEF Held, DebitOf, DebitsOf, Payouts
  <2>4. ASSUME UNCHANGED requests, \A n \in DOMAIN requests : DebitOf(n) => DebitOf(n)'
        PROVE  PayoutsAreDebited'
    BY <2>4 DEF PayoutsAreDebited, DebitOf
  <2>5. \A n \in DOMAIN requests : DebitOf(n) => DebitOf(n)'
    BY <2>2, DebitStays
  <2>6. CASE MarketStep(c) /\ UNCHANGED payoutVars
    <3>1. Held(c)'
      BY <2>6, MarketOpsOnly, OpsApart DEF Held, Found, PayoutOps
    <3> QED
      BY <2>1, <2>3, <2>4, <2>5, <2>6, <3>1 DEF payoutVars
  <2>7. CASE AskBalance(c)
    <3>1. req'[c].op = "request" /\ UNCHANGED requests
      BY <2>7 DEF AskBalance, Begin, payoutVars, TypeInv, CallTypes
    <3> QED
      BY <2>1, <2>3, <2>4, <2>5, <3>1 DEF Held, Found
  <2>8. CASE FindRequest(c)
    <3>1. UNCHANGED <<requests, earnings>>
      BY <2>8 DEF FindRequest, payoutVars, marketVars
    <3> PICK r \in Asks[c] :
          /\ r.op \in PayoutOps \ {"request"} /\ Begin(c, r)
          /\ Goto(c, IF ~Decidable(r) THEN "refused"
                     ELSE IF r.op = "approve-payout" THEN "total" ELSE "write")
      BY <2>8 DEF FindRequest
    <3>2. req'[c] = r /\ (pc'[c] = "refused" \/ Decidable(r))
      <4>1. req'[c] = r
        BY DEF Begin, TypeInv, CallTypes
      <4>2. ~Decidable(r) => pc'[c] = "refused"
        BY DEF Goto, TypeInv, CallTypes
      <4> QED
        BY <4>1, <4>2
    <3>3. ASSUME Decidable(r)
          PROVE  /\ r.request \in DOMAIN requests
                 /\ r.op = "process-payout" => DebitOf(r.request)
      BY <3>3 DEF Decidable, MustBe, PayoutsAreDebited, DebitOf
    <3>4. Held(c)'
      BY <3>1, <3>2, <3>3 DEF Held, Found, DebitOf, DebitsOf, Payouts
    <3> QED
      BY <2>1, <2>3, <2>4, <2>5, <3>1, <3>4
  <2>9. CASE ReadTotal(c) \/ ReadPaid(c) \/ ReadPending(c)
    <3>1. /\ UNCHANGED <<requests, earnings, req>>
          /\ pc[c] \in {"paid", "pending", "total"}
      BY <2>9 DEF ReadTotal, ReadPaid, ReadPending, marketVars, Goes
    <3>2. Held(c)'
      BY <3>1 DEF Held, Found, DebitOf, DebitsOf, Payouts
    <3> QED
      BY <2>1, <2>3, <2>4, <2>5, <3>1, <3>2
  <2>10. ASSUME NEW step \in {"done", "refused"}, Goes(c, step) PROVE Held(c)'
    BY <2>10 DEF Goes, Goto, Held, Found, TypeInv, CallTypes
  <2>11. CASE RequestPayout(c)
    <3>1. requests' = Append(requests, PendingOf(req[c].amount)) /\ Goes(c, "done")
      BY <2>11 DEF RequestPayout
    <3>2. \A n \in DOMAIN requests' :
            \/ requests'[n].status = "PENDING"
            \/ n \in DOMAIN requests /\ requests'[n] = requests[n]
      <4> DEFINE e == PendingOf(req[c].amount)
      <4>1. e.status = "PENDING" /\ requests' = Append(requests, e)
        BY <3>1 DEF PendingOf
      <4> HIDE DEF e
      <4> QED
        BY <4>1 DEF TypeInv, RowTypes
    <3>3. PayoutsAreDebited'
      BY <2>5, <3>2 DEF PayoutsAreDebited, DebitOf
    <3> QED
      BY <2>1, <2>3, <2>10, <3>1, <3>3
  <2>12. CASE ApprovePayout(c)
    <3>1. PICK n \in DOMAIN requests : n = req[c].request /\ n \in Nat
      BY <2>12, TupleTypes DEF ApprovePayout, At, Held, Found, PayoutOps
    <3> DEFINE e == [type |-> "payout", ref |-> n, amount |-> -requests[n].amount]
    <3>2. requests' = [requests EXCEPT ![n].status = "APPROVED"]
          /\ earnings' = Append(earnings, e) /\ Goes(c, "done")
      BY <2>12, <3>1 DEF ApprovePayout, SetStatus, Request
    <3>3. /\ DOMAIN requests' = DOMAIN requests /\ requests[n].amount \in Int
          /\ requests'[n].amount = requests[n].amount
          /\ \A m \in DOMAIN requests : m # n => requests'[m] = requests[m]
      BY <3>1, <3>2, DecisionTypes DEF Statuses
    <3>4. e \in Earnings /\ e.type = "payout" /\ e.ref = n /\ e.amount = -requests[n].amount
      BY <3>1, <3>3 DEF Earnings
    <3> HIDE DEF e
    <3>5. DebitOf(n)'
      <4>1. Len(earnings) + 1 \in DOMAIN earnings' /\ earnings'[Len(earnings) + 1] = e
        BY <3>2, <3>4, AppendEarning
      <4> QED
        BY <3>3, <3>4, <4>1 DEF DebitOf, DebitsOf, Payouts
    <3>6. PayoutsAreDebited'
      <4>1. ASSUME NEW m \in DOMAIN requests, m # n,
                   requests'[m].status \in {"APPROVED", "PROCESSED"}
            PROVE  DebitOf(m)'
        BY <2>5, <3>3, <4>1 DEF PayoutsAreDebited, DebitOf
      <4> QED
        BY <3>3, <3>5, <4>1 DEF PayoutsAreDebited, DebitOf
    <3> QED
      BY <2>1, <2>3, <2>10, <3>2, <3>6
  <2>13. CASE RejectPayout(c) \/ CancelPayout(c) \/ ProcessPayout(c)
    <3>1. PICK op \in {"reject-payout", "cancel-payout", "process-payout"},
               status \in {"REJECTED", "CANCELLED", "PROCESSED"} :
                 Decide(c, op, status) /\ (status = "PROCESSED" => op = "process-payout")
      BY <2>13 DEF RejectPayout, CancelPayout, ProcessPayout
    <3>2. PICK n \in DOMAIN requests :
            n = req[c].request /\ (status = "PROCESSED" => DebitOf(n))
      BY <3>1 DEF Decide, At, Held, Found, PayoutOps
    <3>3. requests' = [requests EXCEPT ![n].status = status] /\ Goes(c, "done")
      BY <3>1, <3>2 DEF Decide, SetStatus
    <3>4. /\ DOMAIN requests' = DOMAIN requests /\ requests'[n].status = status
          /\ \A m \in DOMAIN requests : m # n => requests'[m] = requests[m]
      BY <3>2, <3>3, DecisionTypes DEF Statuses
    <3>5. PayoutsAreDebited'
      BY <2>5, <3>2, <3>4 DEF PayoutsAreDebited, DebitOf
    <3> QED
      BY <2>1, <2>3, <2>10, <3>3, <3>5
  <2> QED
    BY <1>2, <2>6, <2>7, <2>8, <2>9, <2>11, <2>12, <2>13 DEF StepOf, PayoutStep
<1> QED
  BY <1>1, <1>2 DEF Next, StepOf

\* PayoutService: no order of decisions, overlapping ones included, makes a payout that
\* is approved or transferred without a debit of its own amount on record.
THEOREM DebitSafety == Spec => []PayoutsAreDebited
<1>1. DebitInv => PayoutsAreDebited
  BY DEF DebitInv
<1>2. DebitInv /\ [Next]_vars => DebitInv'
  BY StepDebit
<1> QED
  BY InitDebit, <1>1, <1>2, PTL DEF Spec

(***************************************************************************)
(* What is public was published by a call that saw it.                     *)
(***************************************************************************)

Recorded(c) ==
  \E i \in DOMAIN reviews : reviews[i] = [action |-> req[c].decision, by |-> c]

\* What a call knows of the listing when it comes to write it.
Knows(c) ==
  /\ read[c].id <= listing.id
  /\ pc[c] \in {"total", "paid", "pending"} => req[c].op \in PayoutOps
  /\ At(c, "write", "approve") => ~read[c].published
  /\ At(c, "write", "decide") /\ StillThere(c) => Recorded(c)

PublisherRests == publisher \in Calls => pc[publisher] = "done"

PublicationInv ==
  /\ TypeInv /\ (\A c \in Calls : Found(c))
  /\ \A c \in Calls : Knows(c)
  /\ PublisherRests /\ PublishedAsApproved

\* The listing is the same one, as public as before, and its reviews are kept.
Quiet ==
  /\ listing'.exists = listing.exists /\ listing'.id = listing.id
  /\ listing'.owner = listing.owner /\ listing'.published = listing.published
  /\ UNCHANGED publisher
  /\ DOMAIN reviews \subseteq DOMAIN reviews'
  /\ \A i \in DOMAIN reviews : reviews'[i] = reviews[i]

LEMMA RecordStep ==
  ASSUME TypeInv, NEW c \in Calls, NEW action \in Decisions \cup {"SUBMITTED"}, NEW step,
         Record(c, action, step)
  PROVE  /\ Quiet /\ UNCHANGED listing
         /\ \/ Goes(c, "refused")
            \/ /\ Goes(c, step)
               /\ \E i \in DOMAIN reviews' : reviews'[i] = [action |-> action, by |-> c]
<1> DEFINE entry == [action |-> action, by |-> c]
           S == [action : Decisions \cup {"SUBMITTED"}, by : Calls \cup {NoCall}]
<1>1. reviews \in Seq(S) /\ entry \in S
  BY DEF TypeInv, RowTypes
<1>2. UNCHANGED <<listing, publisher>>
  BY DEF Record
<1>3. CASE StillThere(c)
  <2>1. reviews' = Append(reviews, entry) /\ Goes(c, step)
    BY <1>3 DEF Record
  <2> HIDE DEF entry, S
  <2>2. /\ DOMAIN reviews \subseteq DOMAIN reviews'
        /\ \A i \in DOMAIN reviews : reviews'[i] = reviews[i]
        /\ Len(reviews) + 1 \in DOMAIN reviews' /\ reviews'[Len(reviews) + 1] = entry
    BY <1>1, <2>1
  <2> QED
    BY <1>2, <2>1, <2>2 DEF Quiet, entry
<1>4. CASE ~StillThere(c)
  BY <1>2, <1>4 DEF Record, Quiet
<1> QED
  BY <1>3, <1>4

LEMMA PayoutQuiet ==
  ASSUME NEW c \in Calls, PayoutStep(c)
  PROVE  Quiet /\ UNCHANGED <<listing, orders>>
BY DEF PayoutStep, AskBalance, FindRequest, ReadTotal, ReadPaid, ReadPending, RequestPayout,
       ApprovePayout, RejectPayout, CancelPayout, ProcessPayout, Decide, marketVars, Quiet

\* The steps that are not quiet.
LEMMA ListingSteps ==
  ASSUME TypeInv, NEW c \in Calls, StepOf(c)
  PROVE  \/ Quiet
         \/ SubmitListing(c) /\ ~listing.exists
         \/ DeleteListing(c) /\ StillThere(c) /\ orders = {}
         \/ (ApproveListing(c) \/ ApplyDecision(c)) /\ StillThere(c)
<1>1. CASE PayoutStep(c)
  BY <1>1, PayoutQuiet
<1>2. CASE Asking(c) \/ CheckAutoApprove(c) \/ FindOrder(c) \/ GetShare(c) \/ Register(c)
  BY <1>2 DEF Asking, LookForKey, FindByKey, EnsureListingExists, FindListing, GetProfile,
              CheckAutoApprove, FindOrder, GetShare, Register, marketVars, Quiet
<1>3. CASE SubmitForReview(c) \/ RecordDecision(c)
  BY <1>3, RecordStep, TupleTypes DEF SubmitForReview, RecordDecision
<1>4. CASE UpdateListing(c)
  <2>1. listing' \in {listing, [listing EXCEPT !.price = req[c].amount]}
        /\ UNCHANGED <<reviews, publisher>>
    BY <1>4 DEF UpdateListing, UpdateRow
  <2> QED
    BY <2>1 DEF Quiet, TypeInv, RowTypes, Listings
<1>5. CASE InstallListing(c) \/ Purchase(c)
  <2>1. listing' \in {listing, [listing EXCEPT !.downloads = @ + 1]}
        /\ UNCHANGED <<reviews, publisher>>
    BY <1>5 DEF InstallListing, Purchase, UpdateRow
  <2> QED
    BY <2>1 DEF Quiet, TypeInv, RowTypes, Listings
<1>6. CASE SubmitListing(c) /\ listing.exists
  BY <1>6 DEF SubmitListing, marketVars, Quiet
<1>7. CASE DeleteListing(c) /\ ~(StillThere(c) /\ orders = {})
  BY <1>7 DEF DeleteListing, Quiet
<1>8. CASE (ApproveListing(c) \/ ApplyDecision(c)) /\ ~StillThere(c)
  BY <1>8 DEF ApproveListing, ApplyDecision, UpdateRow, Publishes, Quiet
<1> QED
  BY <1>1, <1>2, <1>3, <1>4, <1>5, <1>6, <1>7, <1>8 DEF StepOf, MarketStep, Asking

\* A call that has ended takes no step.
LEMMA NotDone ==
  ASSUME NEW c \in Calls, StepOf(c)
  PROVE  pc[c] # "done"
BY DEF StepOf, MarketStep, LookForKey, SubmitListing, FindByKey, ApproveListing,
       UpdateListing, InstallListing, DeleteListing, EnsureListingExists, SubmitForReview,
       CheckAutoApprove, RecordDecision, ApplyDecision, FindListing, FindOrder, GetShare,
       Purchase, GetProfile, Register, PayoutStep, AskBalance, FindRequest, ReadTotal,
       ReadPaid, ReadPending, RequestPayout, ApprovePayout, RejectPayout, CancelPayout,
       ProcessPayout, Decide, At, Begin

LEMMA FoundStep ==
  ASSUME TypeInv, NEW c \in Calls, Found(c), StepOf(c),
         DOMAIN requests \subseteq DOMAIN requests'
  PROVE  Found(c)'
<1>1. CASE MarketStep(c)
  BY <1>1, MarketOpsOnly, OpsApart DEF Found
<1>2. CASE AskBalance(c)
  BY <1>2 DEF AskBalance, Begin, Found, TypeInv, CallTypes
<1>3. CASE FindRequest(c)
  <2> PICK r \in Asks[c] :
        /\ r.op \in PayoutOps \ {"request"} /\ Begin(c, r)
        /\ Goto(c, IF ~Decidable(r) THEN "refused"
                   ELSE IF r.op = "approve-payout" THEN "total" ELSE "write")
    BY <1>3 DEF FindRequest
  <2>1. req'[c] = r
    BY DEF Begin, TypeInv, CallTypes
  <2>2. ~Decidable(r) => pc'[c] = "refused"
    BY DEF Goto, TypeInv, CallTypes
  <2> QED
    BY <2>1, <2>2 DEF Found, Decidable
<1>4. CASE ReadTotal(c) \/ ReadPaid(c) \/ ReadPending(c)
  BY <1>4 DEF ReadTotal, ReadPaid, ReadPending, Goes, Found
<1>5. CASE \/ RequestPayout(c) \/ ApprovePayout(c) \/ RejectPayout(c) \/ CancelPayout(c)
           \/ ProcessPayout(c)
  BY <1>5 DEF RequestPayout, ApprovePayout, RejectPayout, CancelPayout, ProcessPayout, Decide,
              Goes, Goto, Found, TypeInv, CallTypes
<1> QED
  BY <1>1, <1>2, <1>3, <1>4, <1>5 DEF StepOf, PayoutStep

\* Requests are never taken away.
LEMMA RequestsStay ==
  ASSUME TypeInv, NEW c \in Calls, StepOf(c)
  PROVE  DOMAIN requests \subseteq DOMAIN requests'
<1>1. CASE RequestPayout(c)
  <2>1. requests \in Seq(Requests) /\ requests' = Append(requests, PendingOf(req[c].amount))
    BY <1>1 DEF RequestPayout, TypeInv, RowTypes
  <2> QED
    BY <2>1
<1>2. CASE ApprovePayout(c) \/ RejectPayout(c) \/ CancelPayout(c) \/ ProcessPayout(c)
  <2>1. \E status : SetStatus(c, status)
    BY <1>2 DEF ApprovePayout, RejectPayout, CancelPayout, ProcessPayout, Decide
  <2> QED
    BY <2>1 DEF SetStatus
<1>3. CASE UNCHANGED requests
  BY <1>3
<1> QED
  BY <1>1, <1>2, <1>3 DEF StepOf, payoutVars, PayoutStep, AskBalance, FindRequest, ReadTotal,
                          ReadPaid, ReadPending

\* Everything that holds of the calls' requests and types after any step.
LEMMA StepTypes ==
  ASSUME TypeInv, \A c \in Calls : Found(c), NEW c \in Calls, StepOf(c)
  PROVE  TypeInv' /\ (\A d \in Calls : Found(d)') /\ OthersRest(c)
<1>1. TypeInv' /\ OthersRest(c) /\ DOMAIN requests \subseteq DOMAIN requests'
  BY MarketTypes, PayoutTypes, StepOthers, RequestsStay DEF StepOf
<1>2. ASSUME NEW d \in Calls PROVE Found(d)'
  <2>1. CASE d = c
    BY <1>1, <2>1, FoundStep
  <2>2. CASE d # c
    BY <1>1, <2>2 DEF OthersRest, Found
  <2> QED
    BY <2>1, <2>2
<1> QED
  BY <1>1, <1>2

LEMMA InitPublication == Init => PublicationInv
<1> SUFFICES ASSUME Init PROVE PublicationInv
  OBVIOUS
<1>1. TypeInv
  BY InitTypes
<1>2. \A c \in Calls : Found(c) /\ Knows(c)
  <2>1. \A c \in Calls : pc[c] = "idle" /\ read[c].id = 0
    BY DEF Init, MarketInit, NoListing
  <2> QED
    BY <1>1, <2>1, RowFields DEF Found, Knows, At
<1>3. PublisherRests /\ PublishedAsApproved
  BY MarketplaceConstants DEF Init, MarketInit, PublisherRests, PublishedAsApproved
<1> QED
  BY <1>1, <1>2, <1>3 DEF PublicationInv

\* What call c itself knows after its step.
LEMMA OwnKnowledge ==
  ASSUME PublicationInv, NEW c \in Calls, StepOf(c)
  PROVE  Knows(c)'
<1> USE DEF PublicationInv
<1>0. /\ listing.id \in Nat /\ read[c].id \in Nat /\ read[c].id <= listing.id
      /\ TypeInv'
  BY RowFields, TupleTypes, StepTypes DEF Knows
<1>1. ASSUME NEW step \in {"done", "refused", "existing", "share", "record", "weigh"},
             Goes(c, step), listing'.id >= listing.id
      PROVE  Knows(c)'
  <2>1. read'[c] = read[c] /\ pc'[c] = step
    BY <1>1 DEF Goes, Goto, TypeInv, CallTypes
  <2>2. listing'.id \in Nat
    BY <1>0 DEF TypeInv, RowTypes, Listings
  <2> QED
    BY <1>0, <1>1, <2>1, <2>2 DEF Knows, At
<1>2. ASSUME NEW r \in Asks[c], NEW step, Begin(c, r), Goto(c, step), UNCHANGED listing,
             step \in {"total", "paid", "pending"} => r.op \in PayoutOps,
             step = "write" => r.op # "decide" /\ (r.op = "approve" => ~listing.published)
      PROVE  Knows(c)'
  <2>1. req'[c] = r /\ read'[c] = listing /\ pc'[c] = step
    BY <1>2 DEF Begin, Goto, TypeInv, CallTypes
  <2> QED
    BY <1>0, <1>2, <2>1 DEF Knows, At
<1>3. CASE Asking(c)
  BY <1>2, <1>3 DEF Asking, LookForKey, FindByKey, Admits, EnsureListingExists, FindListing,
                    GetProfile, marketVars
<1>4. CASE AskBalance(c) \/ FindRequest(c)
  <2>1. PICK r \in Asks[c], step \in {"refused", "total", "write"} :
          /\ r.op \in PayoutOps /\ Begin(c, r) /\ Goto(c, step)
    BY <1>4 DEF AskBalance, FindRequest, PayoutOps
  <2>2. UNCHANGED listing
    BY <1>4 DEF AskBalance, FindRequest, marketVars
  <2>3. r.op # "decide" /\ r.op # "approve"
    BY <2>1 DEF PayoutOps
  <2> QED
    BY <1>2, <2>1, <2>2, <2>3
<1>5. CASE SubmitListing(c)
  <2>1. listing' = listing \/ listing'.id = listing.id + 1
    BY <1>5 DEF SubmitListing, marketVars, NoListing
  <2>2. listing'.id >= listing.id
    BY <1>0, <2>1
  <2> QED
    BY <1>1, <1>5, <2>2 DEF SubmitListing
<1>6. CASE DeleteListing(c)
  <2>1. listing'.id >= listing.id
    BY <1>0, <1>6 DEF DeleteListing, NoListing
  <2> QED
    BY <1>1, <1>6, <2>1 DEF DeleteListing
<1>7. CASE \/ ApproveListing(c) \/ UpdateListing(c) \/ InstallListing(c) \/ ApplyDecision(c)
           \/ Purchase(c)
  <2>1. \/ listing' = listing
        \/ \E b : listing' = [listing EXCEPT !.published = b]
        \/ listing' = [listing EXCEPT !.price = req[c].amount]
        \/ listing' = [listing EXCEPT !.downloads = @ + 1]
    BY <1>7 DEF ApproveListing, UpdateListing, InstallListing, ApplyDecision, Purchase, UpdateRow
  <2>2. listing'.id = listing.id
    BY <2>1 DEF TypeInv, RowTypes, Listings
  <2>3. listing'.id >= listing.id
    BY <1>0, <2>2
  <2> QED
    BY <1>1, <1>7, <2>3 DEF ApproveListing, UpdateListing, InstallListing, ApplyDecision,
                            Purchase, UpdateRow
<1>8. CASE SubmitForReview(c)
  <2>1. /\ UNCHANGED listing
        /\ Goes(c, "weigh") \/ Goes(c, "refused")
    BY <1>8, RecordStep DEF SubmitForReview
  <2> QED
    BY <1>0, <1>1, <2>1
<1>9. CASE RecordDecision(c)
  <2>1. /\ UNCHANGED listing /\ At(c, "record", "decide") /\ req[c].decision \in Decisions
    BY <1>9, RecordStep, TupleTypes DEF RecordDecision
  <2>2. CASE Goes(c, "refused")
    BY <1>0, <1>1, <2>1, <2>2
  <2>3. CASE /\ Goes(c, "write")
             /\ \E i \in DOMAIN reviews' :
                  reviews'[i] = [action |-> req[c].decision, by |-> c]
    <3>1. read'[c] = read[c] /\ req'[c] = req[c] /\ pc'[c] = "write"
      BY <2>3 DEF Goes, Goto, TypeInv, CallTypes
    <3>2. Recorded(c)'
      BY <2>3, <3>1 DEF Recorded
    <3> QED
      BY <1>0, <2>1, <3>1, <3>2 DEF Knows, At
  <2> QED
    BY <1>9, <2>1, <2>2, <2>3, RecordStep DEF RecordDecision
<1>10. CASE CheckAutoApprove(c)
  <2>1. UNCHANGED <<listing, read>> /\ pc'[c] \in {"record", "done"}
    BY <1>10 DEF CheckAutoApprove, marketVars, Goes, Goto, TypeInv, CallTypes
  <2> QED
    BY <1>0, <2>1 DEF Knows, At
<1>11. CASE FindOrder(c)
  <2>1. UNCHANGED listing /\ (Goes(c, "refused") \/ Goes(c, "share"))
    BY <1>11 DEF FindOrder, marketVars
  <2> QED
    BY <1>0, <1>1, <2>1
<1>12. CASE Register(c)
  <2>1. UNCHANGED listing /\ (Goes(c, "refused") \/ Goes(c, "done"))
    BY <1>12 DEF Register
  <2> QED
    BY <1>0, <1>1, <2>1
<1>13. CASE GetShare(c)
  <2>1. UNCHANGED <<listing, read, req>> /\ pc'[c] = "write" /\ req[c].op = "purchase"
    BY <1>13 DEF GetShare, At, Goto, marketVars, TypeInv, CallTypes
  <2> QED
    BY <1>0, <2>1 DEF Knows, At
<1>14. CASE ReadTotal(c) \/ ReadPaid(c) \/ ReadPending(c)
  <2>1. UNCHANGED <<listing, read, req>> /\ req[c].op \in PayoutOps
    BY <1>14 DEF ReadTotal, ReadPaid, ReadPending, marketVars, Goes, Knows
  <2>2. req[c].op # "approve" /\ req[c].op # "decide"
    BY <2>1 DEF PayoutOps
  <2> QED
    BY <1>0, <2>1, <2>2 DEF Knows, At
<1>15. CASE \/ RequestPayout(c) \/ ApprovePayout(c) \/ RejectPayout(c) \/ CancelPayout(c)
            \/ ProcessPayout(c)
  <2>1. UNCHANGED listing /\ Goes(c, "done")
    BY <1>15 DEF RequestPayout, ApprovePayout, RejectPayout, CancelPayout, ProcessPayout,
                 Decide, marketVars
  <2> QED
    BY <1>0, <1>1, <2>1
<1> QED
  BY <1>3, <1>4, <1>5, <1>6, <1>7, <1>8, <1>9, <1>10, <1>11, <1>12, <1>13, <1>14, <1>15
     DEF StepOf, MarketStep, PayoutStep, Asking

\* What the other calls know stays true: a listing that is taken away takes its id along.
LEMMA OthersKnow ==
  ASSUME PublicationInv, NEW c \in Calls, StepOf(c), NEW d \in Calls, d # c
  PROVE  Knows(d)'
<1> USE DEF PublicationInv
<1>1. Knows(d) /\ pc'[d] = pc[d] /\ req'[d] = req[d] /\ read'[d] = read[d]
  BY StepTypes DEF OthersRest
<1>2. read[d].id \in Nat /\ listing.id \in Nat
  BY TupleTypes, RowFields
<1>3. ASSUME listing'.id >= listing.id, listing'.id \in Nat, StillThere(d)' => StillThere(d),
             Recorded(d) /\ StillThere(d)' => Recorded(d)'
      PROVE  Knows(d)'
  BY <1>1, <1>2, <1>3 DEF Knows, At
<1>4. CASE Quiet
  BY <1>1, <1>2, <1>3, <1>4 DEF Quiet, StillThere, Recorded
<1>5. CASE SubmitListing(c) /\ ~listing.exists
  <2>1. listing'.id = listing.id + 1
    BY <1>5 DEF SubmitListing, NoListing
  <2>2. ~(StillThere(d)')
    BY <1>1, <1>2, <2>1 DEF StillThere, Knows
  <2> QED
    BY <1>2, <1>3, <2>1, <2>2
<1>6. CASE DeleteListing(c) /\ StillThere(c) /\ orders = {}
  <2>1. listing'.id = listing.id /\ ~listing'.exists
    BY <1>6 DEF DeleteListing, NoListing
  <2> QED
    BY <1>2, <1>3, <2>1 DEF StillThere
<1>7. CASE (ApproveListing(c) \/ ApplyDecision(c)) /\ StillThere(c)
  <2>1. listing'.id = listing.id /\ listing'.exists = listing.exists /\ UNCHANGED reviews
    BY <1>7 DEF ApproveListing, ApplyDecision, UpdateRow, TypeInv, RowTypes, Listings
  <2> QED
    BY <1>1, <1>2, <1>3, <2>1 DEF StillThere, Recorded
<1> QED
  BY <1>4, <1>5, <1>6, <1>7, ListingSteps

LEMMA StepPublication ==
  ASSUME PublicationInv, [Next]_vars
  PROVE  PublicationInv'
<1> USE DEF PublicationInv
<1>1. CASE UNCHANGED vars
  BY <1>1 DEF vars, marketVars, callVars, payoutVars, TypeInv, RowTypes, CallTypes, TotalsRead,
              Sane, Found, Knows, At, StillThere, Recorded, PublisherRests, PublishedAsApproved
<1>2. ASSUME NEW c \in Calls, StepOf(c) PROVE PublicationInv'
  <2>1. TypeInv' /\ (\A d \in Calls : Found(d)') /\ OthersRest(c)
    BY <1>2, StepTypes
  <2>2. \A d \in Calls : Knows(d)'
    BY <1>2, OwnKnowledge, OthersKnow
  <2>3. publisher # c /\ publisher \in Calls \cup {NoCall} /\ NoCall \notin Calls
    BY <1>2, NotDone, MarketplaceConstants DEF PublisherRests, TypeInv, RowTypes
  <2>4. publisher \in Calls =>
          /\ pc'[publisher] = pc[publisher] /\ req'[publisher] = req[publisher]
          /\ read'[publisher] = read[publisher]
    BY <2>1, <2>3 DEF OthersRest
  <2>5. CASE Quiet
    BY <2>1, <2>2, <2>3, <2>4, <2>5 DEF Quiet, PublisherRests, PublishedAsApproved
  <2>6. CASE SubmitListing(c) /\ ~listing.exists
    <3>1. /\ publisher' = IF req[c].tenant # NoTenant THEN c ELSE NoCall
          /\ listing'.owner = req[c].tenant
          /\ req[c].op = "submit" /\ req'[c] = req[c] /\ pc'[c] = "done"
      BY <2>6 DEF SubmitListing, At, Goes, Goto, NoListing, TypeInv, CallTypes
    <3> QED
      BY <2>1, <2>2, <2>3, <3>1 DEF PublisherRests, PublishedAsApproved
  <2>7. CASE DeleteListing(c) /\ StillThere(c) /\ orders = {}
    <3>1. publisher' = NoCall
      BY <2>7 DEF DeleteListing
    <3> QED
      BY <2>1, <2>2, <2>3, <3>1 DEF PublisherRests, PublishedAsApproved
  <2>8. CASE ApproveListing(c) /\ StillThere(c)
    <3>1. /\ publisher' = c /\ pc'[c] = "done" /\ read'[c] = read[c]
          /\ listing'.id = read[c].id /\ ~read[c].published
      BY <2>8 DEF ApproveListing, UpdateRow, Publishes, StillThere, Goes, Goto, Knows,
                  TypeInv, RowTypes, CallTypes, Listings
    <3> QED
      BY <2>1, <2>2, <3>1 DEF PublisherRests, PublishedAsApproved
  <2>9. CASE ApplyDecision(c) /\ StillThere(c)
    <3> DEFINE b == req[c].decision = "APPROVED"
    <3>1. /\ listing' = [listing EXCEPT !.published = b]
          /\ Goes(c, "done") /\ At(c, "write", "decide")
          /\ IF b THEN Publishes(c) ELSE UNCHANGED publisher
          /\ UNCHANGED reviews
      BY <2>9 DEF ApplyDecision, UpdateRow
    <3>2. listing'.id = listing.id /\ listing'.published = b
      BY <3>1 DEF TypeInv, RowTypes, Listings
    <3>3. pc'[c] = "done" /\ req'[c] = req[c]
      BY <3>1 DEF Goes, Goto, TypeInv, CallTypes
    <3>4. Recorded(c)
      BY <2>9, <3>1 DEF Knows
    <3>5. CASE b
      <4>1. publisher' = c
        BY <2>9, <3>1, <3>5 DEF Publishes
      <4>2. \E i \in DOMAIN reviews' : reviews'[i] = [action |-> "APPROVED", by |-> c]
        BY <3>1, <3>4, <3>5 DEF Recorded
      <4> QED
        BY <2>1, <2>2, <3>3, <4>1, <4>2 DEF PublisherRests, PublishedAsApproved
    <3>6. CASE ~b
      <4>1. ~listing'.published /\ UNCHANGED publisher
        BY <3>1, <3>2, <3>6
      <4> QED
        BY <2>1, <2>2, <2>4, <4>1 DEF PublisherRests, PublishedAsApproved
    <3> QED
      BY <3>5, <3>6
  <2> QED
    BY <1>2, <2>5, <2>6, <2>7, <2>8, <2>9, ListingSteps
<1> QED
  BY <1>1, <1>2 DEF Next, StepOf

\* Moderation: what is public was made so by a call that saw this very listing, also when
\* another one has taken its key in the meantime.
THEOREM PublicationSafety == Spec => []PublishedAsApproved
<1>1. PublicationInv => PublishedAsApproved
  BY DEF PublicationInv
<1>2. PublicationInv /\ [Next]_vars => PublicationInv'
  BY StepPublication
<1> QED
  BY InitPublication, <1>1, <1>2, PTL DEF Spec

(***************************************************************************)
(* Sales are booked once, to their developer and with their own amount.    *)
(***************************************************************************)

Booked(o) ==
  /\ listing.exists /\ listing.id = o.listing /\ o.buyer # o.owner
  /\ o.devEarnings + o.platformFee = o.amount /\ o.platformFee >= 0
  /\ \A p \in orders : p.buyer = o.buyer => p = o
  /\ Cardinality(SalesTo(o.buyer)) <= 1
  /\ \A i \in SalesTo(o.buyer) : earnings[i].amount = o.devEarnings /\ o.owner = Dev

SalesHaveOrders == \A i \in Sales : earnings[i].ref # NoTenant => Bought(earnings[i].ref)

\* Nobody buys what is his, and who asks for a payout is registered.
Entitled(c) ==
  /\ pc[c] \in {"existing", "share", "write"} /\ req[c].op = "purchase"
       => read[c].owner # req[c].tenant
  /\ pc[c] \in {"total", "paid", "pending", "write"} /\ req[c].op = "request"
       => profile.exists
  /\ pc[c] \in {"total", "paid", "pending"} => req[c].op \in PayoutOps

\* Without a profile there is nothing on record.
RegisteredFirst == ~profile.exists => earnings = <<>> /\ requests = <<>>

SaleInv ==
  /\ TypeInv /\ (\A c \in Calls : Found(c)) /\ (\A c \in Calls : Entitled(c))
  /\ RegisteredFirst
  /\ IsFiniteSet(orders) /\ Cardinality(orders) <= listing.downloads
  /\ \A o \in orders : Booked(o)
  /\ SalesHaveOrders
  /\ profile.totalSales = Cardinality(Sales)

LEMMA FiniteSales ==
  ASSUME TypeInv
  PROVE  IsFiniteSet(Sales) /\ Sales \subseteq 1 .. Len(earnings) /\ Len(earnings) \in Nat
<1>1. Len(earnings) \in Nat /\ DOMAIN earnings = 1 .. Len(earnings)
  BY DEF TypeInv, RowTypes
<1>2. IsFiniteSet(1 .. Len(earnings)) /\ Sales \subseteq 1 .. Len(earnings)
  BY <1>1, FS_Interval DEF Sales
<1> QED
  BY <1>1, <1>2, FS_Subset

LEMMA AppendSales ==
  ASSUME TypeInv, NEW e \in Earnings, earnings' = Append(earnings, e)
  PROVE  /\ Sales' = IF e.type = "sale" THEN Sales \cup {Len(earnings) + 1} ELSE Sales
         /\ \A t : SalesTo(t)' = IF e.type = "sale" /\ e.ref = t
                                   THEN SalesTo(t) \cup {Len(earnings) + 1} ELSE SalesTo(t)
         /\ Len(earnings) + 1 \notin Sales /\ earnings'[Len(earnings) + 1] = e
         /\ \A i \in Sales : earnings'[i] = earnings[i]
<1>1. /\ DOMAIN earnings' = DOMAIN earnings \cup {Len(earnings) + 1}
      /\ Len(earnings) + 1 \notin DOMAIN earnings
      /\ earnings'[Len(earnings) + 1] = e
      /\ \A i \in DOMAIN earnings : earnings'[i] = earnings[i]
  BY AppendEarning
<1> QED
  BY <1>1 DEF Sales, SalesTo

LEMMA InitSale == Init => SaleInv
<1> SUFFICES ASSUME Init PROVE SaleInv
  OBVIOUS
<1>1. TypeInv
  BY InitTypes
<1>2. (\A c \in Calls : Found(c)) /\ (\A c \in Calls : Entitled(c))
  BY DEF Init, MarketInit, Found, Entitled
<1>3. IsFiniteSet(orders) /\ Cardinality(orders) = 0 /\ orders = {}
  BY FS_EmptySet DEF Init, MarketInit
<1>4. /\ RegisteredFirst /\ SalesHaveOrders
      /\ profile.totalSales = Cardinality(Sales)
  <2>1. CASE profile = Unregistered /\ earnings = <<>>
    <3>1. Sales = {}
      BY <2>1 DEF Sales
    <3> QED
      BY <2>1, <3>1, FS_EmptySet DEF Init, Unregistered, RegisteredFirst, SalesHaveOrders
  <2>2. CASE /\ profile \in {Opened(t) : t \in Tiers}
             /\ earnings = <<[type |-> "sale", ref |-> NoTenant, amount |-> Opening]>>
    <3>1. DOMAIN earnings = {1} /\ earnings[1].type = "sale" /\ earnings[1].ref = NoTenant
      BY <2>2
    <3>2. Sales = {1}
      BY <3>1 DEF Sales
    <3>3. Cardinality(Sales) = 1
      BY <3>2, FS_Singleton
    <3>4. profile.exists /\ profile.totalSales = 1
      BY <2>2 DEF Opened
    <3> QED
      BY <3>1, <3>2, <3>3, <3>4 DEF RegisteredFirst, SalesHaveOrders
  <2> QED
    BY <2>1, <2>2 DEF Init, MarketInit
<1> QED
  BY <1>1, <1>2, <1>3, <1>4, RowFields DEF SaleInv

\* A profile stays, and what is on record has one.
LEMMA ProfileStays ==
  ASSUME SaleInv, NEW c \in Calls, StepOf(c)
  PROVE  (profile.exists => profile'.exists) /\ RegisteredFirst'
<1> USE DEF SaleInv
<1>1. \/ UNCHANGED profile
      \/ Register(c) /\ ~profile.exists /\ profile'.exists
      \/ Purchase(c) /\ profile.exists /\ profile'.exists
      \/ ApprovePayout(c) /\ profile'.exists = profile.exists
  <2>1. CASE Register(c)
    BY <2>1 DEF Register, Unregistered
  <2>2. CASE Purchase(c)
    BY <2>2 DEF Purchase, TypeInv, RowTypes, Profiles
  <2>3. CASE ApprovePayout(c)
    BY <2>3 DEF ApprovePayout, TypeInv, RowTypes, Profiles
  <2>4. CASE ~(Register(c) \/ Purchase(c) \/ ApprovePayout(c))
    BY <2>4 DEF StepOf, MarketStep, LookForKey, SubmitListing, FindByKey, ApproveListing,
       UpdateListing, InstallListing, DeleteListing, EnsureListingExists, SubmitForReview,
       CheckAutoApprove, RecordDecision, ApplyDecision, Record, FindListing, FindOrder,
       GetShare, GetProfile, PayoutStep, AskBalance, FindRequest, ReadTotal, ReadPaid,
       ReadPending, RequestPayout, RejectPayout, CancelPayout, ProcessPayout, Decide, marketVars
  <2> QED
    BY <2>1, <2>2, <2>3, <2>4
<1>2. profile.exists => profile'.exists
  BY <1>1
<1>3. ASSUME ~profile'.exists PROVE earnings' = <<>> /\ requests' = <<>>
  <2>1. ~profile.exists /\ earnings = <<>> /\ requests = <<>>
    BY <1>2, <1>3 DEF RegisteredFirst
  <2>2. ~ApprovePayout(c) /\ ~RejectPayout(c) /\ ~CancelPayout(c) /\ ~ProcessPayout(c)
    <3>1. DOMAIN requests = {}
      BY <2>1
    <3> QED
      BY <3>1 DEF ApprovePayout, RejectPayout, CancelPayout, ProcessPayout, Decide, At, Found,
                  PayoutOps
  <2>3. ~RequestPayout(c)
    BY <2>1 DEF RequestPayout, At, Entitled
  <2>4. UNCHANGED requests
    BY <2>2, <2>3 DEF StepOf, payoutVars, PayoutStep, AskBalance, FindRequest, ReadTotal,
                      ReadPaid, ReadPending
  <2>5. UNCHANGED earnings
    <3>1. CASE MarketStep(c)
      BY <2>1, <3>1, MarketEarnings DEF Purchase
    <3>2. CASE PayoutStep(c)
      BY <2>2, <2>3, <3>2 DEF PayoutStep, AskBalance, FindRequest, ReadTotal, ReadPaid,
                              ReadPending, marketVars
    <3> QED
      BY <3>1, <3>2 DEF StepOf
  <2> QED
    BY <2>1, <2>4, <2>5
<1> QED
  BY <1>2, <1>3 DEF RegisteredFirst

LEMMA EntitledStep ==
  ASSUME SaleInv, NEW c \in Calls, StepOf(c)
  PROVE  \A d \in Calls : Entitled(d)'
<1> USE DEF SaleInv
<1>0. profile.exists => profile'.exists
  BY ProfileStays
<1>1. ASSUME NEW d \in Calls, d # c PROVE Entitled(d)'
  <2>1. pc'[d] = pc[d] /\ req'[d] = req[d] /\ read'[d] = read[d]
    BY <1>1, StepOthers DEF OthersRest
  <2> QED
    BY <1>0, <2>1 DEF Entitled
<1>2. ASSUME NEW step \in {"done", "refused", "record", "weigh"}, Goes(c, step)
      PROVE  Entitled(c)'
  BY <1>2 DEF Goes, Goto, Entitled, TypeInv, CallTypes
<1>3. ASSUME NEW r \in Asks[c], NEW step, Begin(c, r), Goto(c, step), UNCHANGED <<listing, profile>>,
             step \in {"total", "paid", "pending"} => r.op \in PayoutOps,
             r.op = "purchase" /\ step # "refused" => listing.owner # r.tenant,
             r.op = "request" /\ step # "refused" => profile.exists
      PROVE  Entitled(c)'
  <2>1. req'[c] = r /\ read'[c] = listing /\ pc'[c] = step
    BY <1>3 DEF Begin, Goto, TypeInv, CallTypes
  <2> QED
    BY <1>3, <2>1 DEF Entitled
<1>4. ASSUME Asking(c) \/ AskBalance(c) \/ FindRequest(c) PROVE Entitled(c)'
  BY <1>3, <1>4 DEF Asking, LookForKey, FindByKey, EnsureListingExists, FindListing,
                    GetProfile, AskBalance, FindRequest, PayoutOps, marketVars
<1>5. ASSUME \/ SubmitListing(c) \/ DeleteListing(c) \/ Purchase(c) \/ Register(c)
            \/ RequestPayout(c) \/ ApprovePayout(c) \/ RejectPayout(c) \/ CancelPayout(c)
            \/ ProcessPayout(c)
      PROVE  Entitled(c)'
  BY <1>2, <1>5 DEF SubmitListing, DeleteListing, Purchase, Register, RequestPayout,
                    ApprovePayout, RejectPayout, CancelPayout, ProcessPayout, Decide
<1>6. ASSUME ApproveListing(c) \/ UpdateListing(c) \/ InstallListing(c) \/ ApplyDecision(c)
      PROVE  Entitled(c)'
  BY <1>2, <1>6 DEF ApproveListing, UpdateListing, InstallListing, ApplyDecision, UpdateRow
<1>7. ASSUME SubmitForReview(c) PROVE Entitled(c)'
  BY <1>2, <1>7 DEF SubmitForReview, Record
<1>8. ASSUME RecordDecision(c) \/ FindOrder(c) \/ GetShare(c) PROVE Entitled(c)'
  <2>1. /\ req'[c] = req[c] /\ read'[c] = read[c]
        /\ req[c].op = "decide" \/ (req[c].op = "purchase" /\ pc[c] \in {"existing", "share"})
        /\ pc'[c] \in {"refused", "share", "write"}
    BY <1>8 DEF RecordDecision, Record, FindOrder, GetShare, Goes, Goto, At, TypeInv, CallTypes
  <2> QED
    BY <2>1 DEF Entitled
<1>9. ASSUME CheckAutoApprove(c) PROVE Entitled(c)'
  <2>1. pc'[c] = "record" \/ pc'[c] = "done"
    BY <1>9 DEF CheckAutoApprove, Goes, Goto, TypeInv, CallTypes
  <2> QED
    BY <2>1 DEF Entitled
<1>10. ASSUME ReadTotal(c) \/ ReadPaid(c) \/ ReadPending(c) PROVE Entitled(c)'
  <2>1. /\ UNCHANGED <<read, req, profile>> /\ pc[c] \in {"total", "paid", "pending"}
        /\ pc'[c] \in {"paid", "pending", "write", "refused"}
    BY <1>10 DEF ReadTotal, ReadPaid, ReadPending, marketVars, Goes, Goto, TypeInv, CallTypes
  <2>2. req[c].op # "purchase"
    BY <2>1 DEF Entitled, PayoutOps
  <2> QED
    BY <2>1, <2>2 DEF Entitled
<1> QED
  BY <1>1, <1>4, <1>5, <1>6, <1>7, <1>8, <1>9, <1>10 DEF StepOf, MarketStep, PayoutStep, Asking

\* What a step that is not a sale does: the sales and orders are as before, and the listing
\* that was ordered stays.
Still ==
  /\ UNCHANGED orders /\ profile'.totalSales = profile.totalSales
  /\ Sales' = Sales /\ (\A t : SalesTo(t)' = SalesTo(t))
  /\ \A i \in Sales : earnings'[i] = earnings[i]
  /\ orders # {} => /\ listing'.exists = listing.exists /\ listing'.id = listing.id
                    /\ listing'.downloads >= listing.downloads

LEMMA StepKinds ==
  ASSUME SaleInv, NEW c \in Calls, StepOf(c)
  PROVE  Still \/ (Purchase(c) /\ MayOrder(c))
<1>0. TypeInv /\ listing.downloads \in Nat
  BY RowFields DEF SaleInv
<1>1. ASSUME UNCHANGED <<orders, profile, earnings>>,
             \/ UNCHANGED listing
             \/ orders = {}
             \/ /\ listing'.exists = listing.exists /\ listing'.id = listing.id
                /\ listing'.downloads \in {listing.downloads, listing.downloads + 1}
      PROVE  Still
  BY <1>0, <1>1 DEF Still, Sales, SalesTo
<1>2. CASE \/ Asking(c) \/ CheckAutoApprove(c) \/ FindOrder(c) \/ GetShare(c)
           \/ SubmitForReview(c) \/ RecordDecision(c)
  BY <1>1, <1>2 DEF Asking, LookForKey, FindByKey, EnsureListingExists, FindListing, GetProfile,
                    CheckAutoApprove, FindOrder, GetShare, SubmitForReview, RecordDecision,
                    Record, marketVars
<1>3. CASE SubmitListing(c)
  <2>1. UNCHANGED <<orders, profile, earnings>> /\ (listing.exists => UNCHANGED listing)
    BY <1>3 DEF SubmitListing, marketVars
  <2>2. ~listing.exists => orders = {}
    BY DEF SaleInv, Booked
  <2> QED
    BY <1>1, <2>1, <2>2
<1>4. CASE DeleteListing(c)
  BY <1>1, <1>4 DEF DeleteListing
<1>5. CASE ApproveListing(c) \/ UpdateListing(c) \/ InstallListing(c) \/ ApplyDecision(c)
  <2>1. /\ UNCHANGED <<orders, profile, earnings>>
        /\ \/ UNCHANGED listing
           \/ listing' = [listing EXCEPT !.price = req[c].amount]
           \/ listing' = [listing EXCEPT !.downloads = @ + 1]
           \/ \E b : listing' = [listing EXCEPT !.published = b]
    BY <1>5 DEF ApproveListing, UpdateListing, InstallListing, ApplyDecision, UpdateRow
  <2>2. listing \in Listings
    BY <1>0 DEF TypeInv, RowTypes
  <2>3. \/ UNCHANGED listing
        \/ /\ listing'.exists = listing.exists /\ listing'.id = listing.id
           /\ listing'.downloads \in {listing.downloads, listing.downloads + 1}
    BY <2>1, <2>2 DEF Listings
  <2> QED
    BY <1>1, <2>1, <2>3
<1>6. CASE Purchase(c) /\ ~MayOrder(c)
  BY <1>1, <1>6 DEF Purchase
<1>7. CASE Register(c)
  <2>1. UNCHANGED <<listing, orders, earnings>>
    BY <1>7 DEF Register
  <2>2. profile'.totalSales = profile.totalSales
    <3>1. CASE profile.exists
      BY <1>7, <3>1 DEF Register
    <3>2. CASE ~profile.exists
      <4>1. Sales = {}
        BY <3>2 DEF SaleInv, RegisteredFirst, Sales
      <4>2. profile.totalSales = 0
        BY <4>1, FS_EmptySet DEF SaleInv
      <4> QED
        BY <1>7, <3>2, <4>2 DEF Register, Unregistered
    <3> QED
      BY <3>1, <3>2
  <2> QED
    BY <1>0, <2>1, <2>2 DEF Still, Sales, SalesTo
<1>8. CASE ApprovePayout(c)
  <2>1. UNCHANGED <<listing, orders>> /\ profile'.totalSales = profile.totalSales
    BY <1>0, <1>8 DEF ApprovePayout, TypeInv, RowTypes, Profiles
  <2> DEFINE e == [type |-> "payout", ref |-> req[c].request, amount |-> -Request(c).amount]
  <2>2. earnings' = Append(earnings, e)
    BY <1>8 DEF ApprovePayout
  <2>3. e \in Earnings
    <3>1. req[c].request \in Nat /\ req[c].request \in DOMAIN requests
      BY <1>0, <1>8, TupleTypes DEF SaleInv, ApprovePayout, At, Found, PayoutOps
    <3>2. Request(c) \in Requests
      BY <1>0, <3>1 DEF TypeInv, RowTypes, Request
    <3>3. Request(c).amount \in Int
      BY <3>2 DEF Requests
    <3> QED
      BY <3>1, <3>3 DEF Earnings
  <2>4. e.type # "sale"
    OBVIOUS
  <2> HIDE DEF e
  <2>5. /\ Sales' = Sales /\ (\A t : SalesTo(t)' = SalesTo(t))
        /\ \A i \in Sales : earnings'[i] = earnings[i]
    BY <1>0, <2>2, <2>3, <2>4, AppendSales
  <2> QED
    BY <1>0, <2>1, <2>5 DEF Still
<1>9. CASE PayoutStep(c) /\ ~ApprovePayout(c)
  BY <1>1, <1>9 DEF PayoutStep, AskBalance, FindRequest, ReadTotal, ReadPaid, ReadPending,
       RequestPayout, RejectPayout, CancelPayout, ProcessPayout, Decide, marketVars
<1> QED
  BY <1>2, <1>3, <1>4, <1>5, <1>6, <1>7, <1>8, <1>9 DEF StepOf, MarketStep, Asking

Books ==
  /\ IsFiniteSet(orders) /\ Cardinality(orders) <= listing.downloads
  /\ \A o \in orders : Booked(o)
  /\ SalesHaveOrders
  /\ profile.totalSales = Cardinality(Sales)

LEMMA StillBooks ==
  ASSUME SaleInv, TypeInv', Still
  PROVE  Books'
<1> USE DEF SaleInv
<1>0. listing.downloads \in Nat /\ listing'.downloads \in Nat
  BY RowFields DEF TypeInv, RowTypes, Listings
<1>1. IsFiniteSet(orders') /\ Cardinality(orders') <= listing'.downloads
  <2>1. CASE orders = {}
    BY <1>0, <2>1, FS_EmptySet DEF Still
  <2>2. CASE orders # {}
    <3>1. Cardinality(orders) \in Nat
      BY FS_CardinalityType
    <3> QED
      BY <1>0, <2>2, <3>1 DEF Still
  <2> QED
    BY <2>1, <2>2
<1>2. ASSUME NEW o \in orders' PROVE Booked(o)'
  <2>1. /\ o \in orders /\ Booked(o) /\ UNCHANGED orders
        /\ listing'.exists = listing.exists /\ listing'.id = listing.id
        /\ SalesTo(o.buyer)' = SalesTo(o.buyer) /\ SalesTo(o.buyer) \subseteq Sales
        /\ \A i \in Sales : earnings'[i] = earnings[i]
    BY <1>2 DEF Still, SalesTo
  <2> HIDE DEF SaleInv
  <2> QED
    BY <2>1 DEF Booked
<1>3. SalesHaveOrders'
  BY DEF Still, SalesHaveOrders, Bought
<1>4. profile'.totalSales = Cardinality(Sales')
  BY DEF Still
<1> QED
  BY <1>1, <1>2, <1>3, <1>4 DEF Books

\* The order a purchase makes.
OrderOf(c) ==
  [buyer |-> req[c].tenant, listing |-> read[c].id, amount |-> read[c].price,
   devEarnings |-> DevEarnings(c), platformFee |-> read[c].price - DevEarnings(c),
   owner |-> read[c].owner]

\* What a purchase makes of the earnings: the tenant's only sale, or nothing.
LEMMA PurchaseSales ==
  ASSUME SaleInv, NEW c \in Calls, Purchase(c), MayOrder(c), NEW t, t = req[c].tenant
  PROVE  /\ Cardinality(SalesTo(t)') <= 1
         /\ \A i \in SalesTo(t)' :
              earnings'[i].amount = DevEarnings(c) /\ read[c].owner = Dev
         /\ \A i \in Sales : earnings'[i] = earnings[i]
         /\ \A u : u # t => SalesTo(u)' = SalesTo(u)
         /\ \A i \in Sales' : i \in Sales \/ earnings'[i].ref = t
         /\ profile'.totalSales = Cardinality(Sales')
<1> PICK n : n = Len(earnings) + 1
  OBVIOUS
<1> PICK e : e = BookedEarning(c)
  OBVIOUS
<1>1. TypeInv /\ t # NoTenant
  <2>1. req[c].tenant \in Tenants
    BY DEF SaleInv, TypeInv, Sane, Purchase, At
  <2> QED
    BY <2>1, MarketplaceConstants DEF SaleInv
<1>2. SalesTo(t) = {}
  BY <1>1 DEF SaleInv, SalesHaveOrders, SalesTo, MayOrder
<1>3. CASE ~(read[c].owner = Dev /\ profile.exists)
  <2>1. UNCHANGED <<earnings, profile>>
    BY <1>3 DEF Purchase
  <2>2. Sales' = Sales /\ (\A u : SalesTo(u)' = SalesTo(u))
    BY <2>1 DEF Sales, SalesTo
  <2>3. Cardinality(SalesTo(t)') <= 1
    <3>1. SalesTo(t)' = {}
      BY <1>2, <2>2
    <3>2. Cardinality({}) = 0
      BY FS_EmptySet
    <3> QED
      BY <3>1, <3>2
  <2> QED
    BY <1>2, <2>1, <2>2, <2>3 DEF SaleInv
<1>4. CASE read[c].owner = Dev /\ profile.exists
  <2>1. earnings' = Append(earnings, e) /\ e \in Earnings
    BY <1>1, <1>4, BookedType DEF Purchase
  <2>2. e.type = "sale" /\ e.ref = t /\ e.amount = DevEarnings(c)
    BY DEF BookedEarning
  <2>3. profile'.totalSales = profile.totalSales + 1
    BY <1>1, <1>4 DEF Purchase, TypeInv, RowTypes, Profiles
  <2>4. /\ Sales' = Sales \cup {n} /\ n \notin Sales /\ earnings'[n] = e
        /\ \A u : SalesTo(u)' = IF t = u THEN SalesTo(u) \cup {n} ELSE SalesTo(u)
        /\ \A i \in Sales : earnings'[i] = earnings[i]
    BY <1>1, <2>1, <2>2, AppendSales
  <2>5. Cardinality(Sales') = Cardinality(Sales) + 1
    BY <1>1, <2>4, FiniteSales, FS_AddElement
  <2>6. SalesTo(t)' = {n} /\ Cardinality(SalesTo(t)') <= 1
    <3>1. SalesTo(t)' = SalesTo(t) \cup {n}
      BY <2>4
    <3>2. SalesTo(t)' = {n}
      BY <1>2, <3>1
    <3>3. Cardinality({n}) = 1
      BY FS_Singleton
    <3> QED
      BY <3>2, <3>3
  <2> QED
    BY <1>4, <2>2, <2>3, <2>4, <2>5, <2>6 DEF SaleInv
<1> QED
  BY <1>3, <1>4

LEMMA PurchaseBooks ==
  ASSUME SaleInv, NEW c \in Calls, Purchase(c), MayOrder(c)
  PROVE  Books'
<1> PICK o : o = OrderOf(c)
  OBVIOUS
<1> PICK t : t = req[c].tenant
  OBVIOUS
<1>0. TypeInv /\ listing.downloads \in Nat
  BY RowFields DEF SaleInv
<1>1. /\ orders' = orders \cup {o}
      /\ listing'.exists = listing.exists /\ listing'.id = listing.id
      /\ listing'.downloads = listing.downloads + 1
  <2>1. listing' = [listing EXCEPT !.downloads = @ + 1] /\ orders' = orders \cup {o}
    BY DEF Purchase, OrderOf
  <2> QED
    BY <1>0, <2>1 DEF TypeInv, RowTypes, Listings
<1>2. /\ listing.exists /\ listing.id = read[c].id
      /\ \A p \in orders : p.buyer # t
  BY DEF MayOrder, StillThere, Bought
<1>3. /\ o.buyer = t /\ o.listing = read[c].id /\ o.owner = read[c].owner
      /\ o.devEarnings = DevEarnings(c) /\ o.owner # t
      /\ o.devEarnings + o.platformFee = o.amount /\ o.platformFee >= 0
  <2>1. read[c].owner # t
    BY DEF SaleInv, Entitled, Purchase, At
  <2>2. DevEarnings(c) \in 0 .. read[c].price /\ read[c].price \in Nat
    BY <1>0, PartOfPrice, TupleTypes
  <2> QED
    BY <2>1, <2>2 DEF OrderOf
<1>4. o \notin orders
  BY <1>2, <1>3
<1>5. IsFiniteSet(orders') /\ Cardinality(orders') <= listing'.downloads
  <2>1. IsFiniteSet(orders') /\ Cardinality(orders') = Cardinality(orders) + 1
    BY <1>1, <1>4, FS_AddElement DEF SaleInv
  <2>2. Cardinality(orders) \in Nat /\ Cardinality(orders) <= listing.downloads
    BY FS_CardinalityType DEF SaleInv
  <2> QED
    BY <1>0, <1>1, <2>1, <2>2
<1>6. ASSUME NEW p \in orders PROVE Booked(p)'
  <2>1. Booked(p) /\ p.buyer # t
    BY <1>2, <1>6 DEF SaleInv
  <2>2. /\ SalesTo(p.buyer)' = SalesTo(p.buyer) /\ SalesTo(p.buyer) \subseteq Sales
        /\ \A i \in Sales : earnings'[i] = earnings[i]
    <3>1. \A u : u # t => SalesTo(u)' = SalesTo(u)
      BY PurchaseSales
    <3>2. \A i \in Sales : earnings'[i] = earnings[i]
      BY PurchaseSales
    <3>3. SalesTo(p.buyer) \subseteq Sales
      BY DEF SalesTo
    <3>4. SalesTo(p.buyer)' = SalesTo(p.buyer)
      BY <2>1, <3>1
    <3> QED
      BY <3>2, <3>3, <3>4
  <2> QED
    BY <1>1, <1>3, <2>1, <2>2 DEF Booked
<1>7. Booked(o)'
  <2>1. Cardinality(SalesTo(t)') <= 1
        /\ \A i \in SalesTo(t)' : earnings'[i].amount = DevEarnings(c) /\ read[c].owner = Dev
    BY PurchaseSales
  <2> QED
    BY <1>1, <1>2, <1>3, <2>1 DEF Booked
<1>8. SalesHaveOrders'
  <2> SUFFICES ASSUME NEW i \in Sales', earnings'[i].ref # NoTenant
               PROVE  \E p \in orders' : p.buyer = earnings'[i].ref
    BY DEF SalesHaveOrders, Bought
  <2>1. CASE i \in Sales
    BY <1>1, <2>1, PurchaseSales DEF SaleInv, SalesHaveOrders, Bought
  <2>2. CASE earnings'[i].ref = t
    BY <1>1, <1>3, <2>2
  <2> QED
    BY <2>1, <2>2, PurchaseSales
<1>9. profile'.totalSales = Cardinality(Sales')
  BY PurchaseSales
<1> QED
  BY <1>1, <1>5, <1>6, <1>7, <1>8, <1>9 DEF Books

LEMMA StepSale == SaleInv /\ [Next]_vars => SaleInv'
<1>1. ASSUME SaleInv, UNCHANGED vars PROVE SaleInv'
  BY <1>1 DEF SaleInv, vars, marketVars, callVars, payoutVars, TypeInv, RowTypes, CallTypes,
       TotalsRead, Sane, Found, Entitled, RegisteredFirst, Booked, SalesHaveOrders, Sales,
       SalesTo, Bought
<1>2. ASSUME SaleInv, NEW c \in Calls, StepOf(c) PROVE SaleInv'
  <2>1. TypeInv' /\ (\A d \in Calls : Found(d)')
    BY <1>2, StepTypes DEF SaleInv
  <2>2. (\A d \in Calls : Entitled(d)') /\ RegisteredFirst'
    BY <1>2, EntitledStep, ProfileStays
  <2>3. Books'
    BY <1>2, <2>1, StepKinds, StillBooks, PurchaseBooks
  <2> QED
    BY <2>1, <2>2, <2>3 DEF SaleInv, Books
<1> QED
  BY <1>1, <1>2 DEF Next, StepOf

\* Purchases: whatever the interleaving of purchases, registrations, payouts and changes of
\* the listing, a sale is booked once, to its developer and with its own amount.
THEOREM SalesSafety == Spec => []SalesAreBooked
<1>1. SaleInv => SalesAreBooked
  BY DEF SaleInv, SalesAreBooked, Booked, SalesHaveOrders
<1> QED
  BY InitSale, StepSale, <1>1, PTL DEF Spec

(***************************************************************************)
(* The books balance.                                                      *)
(*                                                                         *)
(* The sums are totals in the sense of SumTheorems.  A decision that does  *)
(* not overlap another one finds the request in the status that its check  *)
(* has seen, and an approval the total that it debits.                     *)
(***************************************************************************)

Amounts == [i \in DOMAIN earnings |-> earnings[i].amount]
Asked == [n \in DOMAIN requests |-> requests[n].amount]

IsDebited(n) == requests[n].status \in {"APPROVED", "PROCESSED"}

Balanced ==
  /\ profile.totalEarnings = Total(Amounts, DOMAIN earnings)
  /\ \A n \in DOMAIN requests : Cardinality(DebitsOf(n)) = IF IsDebited(n) THEN 1 ELSE 0

PayoutsHaveRequests == \A i \in Payouts : earnings[i].ref \in DOMAIN requests

BalanceInv ==
  /\ SaleInv /\ PayoutsHaveRequests
  /\ ~overlapped => Balanced

LEMMA RecordFacts ==
  ASSUME TypeInv
  PROVE  /\ IsFiniteSet(DOMAIN earnings) /\ IsFiniteSet(DOMAIN requests)
         /\ \A i \in DOMAIN earnings : Amounts[i] = earnings[i].amount /\ Amounts[i] \in Int
         /\ \A n \in DOMAIN requests : Asked[n] = requests[n].amount /\ Asked[n] \in Int
<1>1. /\ Len(earnings) \in Nat /\ DOMAIN earnings = 1 .. Len(earnings)
      /\ \A i \in DOMAIN earnings : earnings[i] \in Earnings
  BY DEF TypeInv, RowTypes
<1>2. /\ Len(requests) \in Nat /\ DOMAIN requests = 1 .. Len(requests)
      /\ \A n \in DOMAIN requests : requests[n] \in Requests
  BY DEF TypeInv, RowTypes
<1>3. IsFiniteSet(DOMAIN earnings)
  BY <1>1, FS_Interval
<1>4. IsFiniteSet(DOMAIN requests)
  BY <1>2, FS_Interval
<1> QED
  BY <1>1, <1>2, <1>3, <1>4 DEF Amounts, Asked, Earnings, Requests

LEMMA EarningsAreTotal ==
  ASSUME TypeInv, NEW S \in SUBSET DOMAIN earnings
  PROVE  SumEarnings(S) = Total(Amounts, S) /\ SumEarnings(S) \in Int
<1> DEFINE Step(f) == [s \in SUBSET S |->
                         IF s = {} THEN 0
                         ELSE LET x == CHOOSE x \in s : TRUE
                              IN earnings[x].amount + f[s \ {x}]]
           iter == CHOOSE f : f = Step(f)
<1>0. IsFiniteSet(S) /\ \A i \in S : Amounts[i] = earnings[i].amount /\ Amounts[i] \in Int
  <2>1. IsFiniteSet(S)
    BY RecordFacts, FS_Subset
  <2> QED
    BY <2>1, RecordFacts
<1>6. \A i \in S : Amounts[i] \in Int
  BY <1>0
<1>1. SumEarnings(S) = iter[S]
  BY DEF SumEarnings, MapThenSumSet, MapThenFoldSet
<1>2. ASSUME NEW f PROVE (f = Step(f)) <=> Recursion(Amounts, f, S)
  <2>1. \A s \in SUBSET S : s # {} =>
          Amounts[CHOOSE x \in s : TRUE] = earnings[CHOOSE x \in s : TRUE].amount
    BY <1>0
  <2> QED
    BY <2>1 DEF Recursion
<1>3. \E f : f = Step(f)
  <2>1. PICK f : Recursion(Amounts, f, S)
    BY <1>0, <1>6, RecursionExists
  <2>2. f = Step(f)
    BY <1>2, <2>1
  <2> HIDE DEF Step
  <2> QED
    BY <2>2
<1>4. iter = Step(iter)
  BY <1>3
<1>5. Recursion(Amounts, iter, S)
  BY <1>2, <1>4
<1> HIDE DEF iter
<1> QED
  BY <1>0, <1>1, <1>5, <1>6, RecursionTotal, TotalType

LEMMA RequestsAreTotal ==
  ASSUME TypeInv, NEW S \in SUBSET DOMAIN requests
  PROVE  SumRequests(S) \in Int
<1> DEFINE Step(f) == [s \in SUBSET S |->
                         IF s = {} THEN 0
                         ELSE LET x == CHOOSE x \in s : TRUE
                              IN requests[x].amount + f[s \ {x}]]
           iter == CHOOSE f : f = Step(f)
<1>0. IsFiniteSet(S) /\ \A n \in S : Asked[n] = requests[n].amount /\ Asked[n] \in Int
  <2>1. IsFiniteSet(S)
    BY RecordFacts, FS_Subset
  <2> QED
    BY <2>1, RecordFacts
<1>6. \A n \in S : Asked[n] \in Int
  BY <1>0
<1>1. SumRequests(S) = iter[S]
  BY DEF SumRequests, MapThenSumSet, MapThenFoldSet
<1>2. ASSUME NEW f PROVE (f = Step(f)) <=> Recursion(Asked, f, S)
  <2>1. \A s \in SUBSET S : s # {} =>
          Asked[CHOOSE x \in s : TRUE] = requests[CHOOSE x \in s : TRUE].amount
    BY <1>0
  <2> QED
    BY <2>1 DEF Recursion
<1>3. \E f : f = Step(f)
  <2>1. PICK f : Recursion(Asked, f, S)
    BY <1>0, <1>6, RecursionExists
  <2>2. f = Step(f)
    BY <1>2, <2>1
  <2> HIDE DEF Step
  <2> QED
    BY <2>2
<1>4. iter = Step(iter)
  BY <1>3
<1>5. Recursion(Asked, iter, S)
  BY <1>2, <1>4
<1> HIDE DEF iter
<1> QED
  BY <1>0, <1>1, <1>5, <1>6, RecursionTotal, TotalType

\* What one more earning adds, to the total and to the debits.
LEMMA AppendTotal ==
  ASSUME TypeInv, NEW e \in Earnings, earnings' = Append(earnings, e)
  PROVE  Total(Amounts, DOMAIN earnings)' = Total(Amounts, DOMAIN earnings) + e.amount
<1>1. PICK n : n = Len(earnings) + 1
  OBVIOUS
<1>2. PICK S : S = DOMAIN earnings
  OBVIOUS
<1>3. PICK a : a = Amounts
  OBVIOUS
<1>4. PICK b : b = Amounts'
  OBVIOUS
<1>5. /\ DOMAIN earnings' = S \cup {n} /\ n \notin S /\ earnings'[n] = e
      /\ \A i \in S : earnings'[i] = earnings[i]
  BY <1>1, <1>2, AppendEarning
<1>6. IsFiniteSet(S) /\ \A i \in S : a[i] = earnings[i].amount /\ a[i] \in Int
  BY <1>2, <1>3, RecordFacts
<1>7. \A i \in S \cup {n} : b[i] = earnings'[i].amount
  BY <1>4, <1>5 DEF Amounts
<1>8. e.amount \in Int
  BY DEF Earnings
<1>9. b[n] = e.amount /\ \A i \in S : b[i] = a[i]
  BY <1>5, <1>6, <1>7
<1>10. Total(b, S) = Total(a, S) /\ Total(a, S) \in Int
  BY <1>6, <1>9, TotalCong, TotalType
<1>11. Total(b, S \cup {n}) = b[n] + Total(b, S)
  <2>1. \A i \in S \cup {n} : b[i] \in Int
    BY <1>6, <1>8, <1>9
  <2> QED
    BY <1>5, <1>6, <2>1, TotalAdd
<1>12. Total(b, S \cup {n}) = Total(a, S) + e.amount
  BY <1>8, <1>9, <1>10, <1>11
<1> QED
  BY <1>2, <1>3, <1>4, <1>5, <1>12

LEMMA FiniteDebits ==
  ASSUME TypeInv, NEW n
  PROVE  IsFiniteSet(DebitsOf(n))
<1>1. DebitsOf(n) \subseteq DOMAIN earnings
  BY DEF DebitsOf, Payouts
<1> QED
  BY <1>1, RecordFacts, FS_Subset

LEMMA AppendDebits ==
  ASSUME TypeInv, NEW e \in Earnings, earnings' = Append(earnings, e), NEW n
  PROVE  Cardinality(DebitsOf(n)') =
           Cardinality(DebitsOf(n)) + (IF e.type = "payout" /\ e.ref = n THEN 1 ELSE 0)
<1>1. PICK k : k = Len(earnings) + 1
  OBVIOUS
<1>2. /\ DOMAIN earnings' = DOMAIN earnings \cup {k} /\ k \notin DOMAIN earnings
      /\ earnings'[k] = e
      /\ \A i \in DOMAIN earnings : earnings'[i] = earnings[i]
  BY <1>1, AppendEarning
<1>3. IsFiniteSet(DebitsOf(n)) /\ Cardinality(DebitsOf(n)) \in Nat
  BY FiniteDebits, FS_CardinalityType
<1>4. CASE e.type = "payout" /\ e.ref = n
  <2>1. DebitsOf(n)' = DebitsOf(n) \cup {k} /\ k \notin DebitsOf(n)
    BY <1>2, <1>4 DEF DebitsOf, Payouts
  <2>2. Cardinality(DebitsOf(n) \cup {k}) = Cardinality(DebitsOf(n)) + 1
    BY <1>3, <2>1, FS_AddElement
  <2> QED
    BY <1>4, <2>1, <2>2
<1>5. CASE ~(e.type = "payout" /\ e.ref = n)
  <2>1. DebitsOf(n)' = DebitsOf(n)
    BY <1>2, <1>5 DEF DebitsOf, Payouts
  <2> QED
    BY <1>3, <1>5, <2>1
<1> QED
  BY <1>4, <1>5

LEMMA InitBalance == Init => BalanceInv
<1> SUFFICES ASSUME Init PROVE BalanceInv
  OBVIOUS
<1>1. SaleInv /\ TypeInv
  BY InitSale, InitTypes
<1>2. Payouts = {} /\ profile.totalEarnings = Total(Amounts, DOMAIN earnings)
  <2>1. CASE profile = Unregistered /\ earnings = <<>>
    BY <2>1, TotalEmpty DEF Payouts, Unregistered
  <2>2. CASE /\ profile \in {Opened(t) : t \in Tiers}
             /\ earnings = <<[type |-> "sale", ref |-> NoTenant, amount |-> Opening]>>
    <3>1. DOMAIN earnings = {1} /\ earnings[1].type = "sale" /\ earnings[1].amount = Opening
      BY <2>2
    <3>2. {} \cup {1} = {1} /\ 1 \notin {} /\ IsFiniteSet({})
      BY FS_EmptySet
    <3>3. \A i \in {} \cup {1} : Amounts[i] = Opening /\ Amounts[i] \in Int
      BY <1>1, <3>1, RecordFacts
    <3>4. Total(Amounts, {} \cup {1}) = Amounts[1] + Total(Amounts, {})
      BY <3>2, <3>3, TotalAdd
    <3>5. Total(Amounts, {1}) = Opening
      BY <3>2, <3>3, <3>4, TotalEmpty, MarketplaceConstants
    <3>6. Payouts = {}
      BY <3>1 DEF Payouts
    <3> QED
      BY <2>2, <3>1, <3>5, <3>6 DEF Opened
  <2> QED
    BY <2>1, <2>2 DEF Init, MarketInit
<1>3. ASSUME NEW n \in DOMAIN requests
      PROVE  Cardinality(DebitsOf(n)) = IF IsDebited(n) THEN 1 ELSE 0
  <2>1. requests[n].status = "PENDING"
    <3> PICK half : half = PendingOf(Opening \div 2)
      OBVIOUS
    <3>1. half.status = "PENDING"
      BY DEF PendingOf
    <3>2. requests = <<>> \/ requests = <<half, half>>
      BY DEF Init
    <3> QED
      BY <3>1, <3>2
  <2>2. DebitsOf(n) = {}
    BY <1>2 DEF DebitsOf
  <2> QED
    BY <2>1, <2>2, FS_EmptySet DEF IsDebited
<1> QED
  BY <1>1, <1>2, <1>3 DEF BalanceInv, Balanced, PayoutsHaveRequests

\* Whatever leaves the records alone leaves the books balanced.
LEMMA RestBalances ==
  ASSUME BalanceInv, SaleInv', UNCHANGED <<requests, earnings, overlapped>>,
         ~overlapped => profile'.totalEarnings = profile.totalEarnings
  PROVE  BalanceInv'
<1>1. /\ Amounts' = Amounts /\ Payouts' = Payouts
      /\ \A n : DebitsOf(n)' = DebitsOf(n) /\ IsDebited(n)' = IsDebited(n)
  BY DEF Amounts, Payouts, DebitsOf, IsDebited
<1>2. PayoutsHaveRequests'
  BY <1>1 DEF BalanceInv, PayoutsHaveRequests
<1>3. ~overlapped => Balanced'
  BY <1>1 DEF BalanceInv, Balanced
<1> QED
  BY <1>2, <1>3 DEF BalanceInv

LEMMA MarketBalance ==
  ASSUME BalanceInv, SaleInv', NEW c \in Calls, MarketStep(c), UNCHANGED payoutVars
  PROVE  BalanceInv'
<1>0. TypeInv /\ UNCHANGED <<requests, overlapped>>
  BY DEF BalanceInv, SaleInv, payoutVars
<1>1. CASE Register(c)
  <2>1. CASE profile.exists
    BY <1>0, <1>1, <2>1, RestBalances DEF Register
  <2>2. CASE ~profile.exists
    <3>1. earnings = <<>>
      BY <2>2 DEF BalanceInv, SaleInv, RegisteredFirst
    <3>2. ~overlapped => profile.totalEarnings = 0
      <4>1. DOMAIN earnings = {}
        BY <3>1
      <4> QED
        BY <4>1, TotalEmpty DEF BalanceInv, Balanced
    <3> QED
      BY <1>0, <1>1, <2>2, <3>2, RestBalances DEF Register, Unregistered
  <2> QED
    BY <2>1, <2>2
<1>2. CASE Purchase(c) /\ MayOrder(c) /\ read[c].owner = Dev /\ profile.exists
  <2>1. PICK e : e = BookedEarning(c)
    OBVIOUS
  <2>2. e \in Earnings /\ e.type = "sale" /\ e.amount = DevEarnings(c) /\ e.amount \in Int
    BY <1>0, <1>2, <2>1, BookedType DEF BookedEarning, Earnings
  <2>3. /\ earnings' = Append(earnings, e)
        /\ profile'.totalEarnings = profile.totalEarnings + e.amount
    BY <1>0, <1>2, <2>1, <2>2 DEF Purchase, TypeInv, RowTypes, Profiles
  <2>4. PayoutsHaveRequests'
    <3>1. \A i \in Payouts' : i \in Payouts /\ earnings'[i] = earnings[i]
      BY <1>0, <2>2, <2>3, AppendEarning DEF Payouts
    <3> QED
      BY <1>0, <3>1 DEF BalanceInv, PayoutsHaveRequests
  <2>5. ~overlapped => Balanced'
    <3> SUFFICES ASSUME ~overlapped PROVE Balanced'
      OBVIOUS
    <3>1. (profile.totalEarnings = Total(Amounts, DOMAIN earnings))'
      BY <1>0, <2>2, <2>3, AppendTotal DEF BalanceInv, Balanced
    <3>2. ASSUME NEW n \in DOMAIN requests
          PROVE  Cardinality(DebitsOf(n)') = IF IsDebited(n)' THEN 1 ELSE 0
      <4>1. Cardinality(DebitsOf(n)') = Cardinality(DebitsOf(n)) + 0
        BY <1>0, <2>2, <2>3, AppendDebits
      <4>2. Cardinality(DebitsOf(n)) = IF IsDebited(n) THEN 1 ELSE 0
        BY DEF BalanceInv, Balanced
      <4>3. IsDebited(n)' = IsDebited(n)
        BY <1>0 DEF IsDebited
      <4> QED
        BY <4>1, <4>2, <4>3
    <3> QED
      BY <1>0, <3>1, <3>2 DEF Balanced
  <2> QED
    BY <1>0, <2>4, <2>5 DEF BalanceInv
<1>3. CASE Purchase(c) /\ ~(MayOrder(c) /\ read[c].owner = Dev /\ profile.exists)
  <2>1. UNCHANGED <<earnings, profile>>
    BY <1>3 DEF Purchase
  <2> QED
    BY <1>0, <2>1, RestBalances
<1>4. CASE ~Register(c) /\ ~Purchase(c)
  <2>1. UNCHANGED <<earnings, profile>>
    BY <1>4 DEF MarketStep, LookForKey, SubmitListing, FindByKey, ApproveListing, UpdateListing,
       InstallListing, DeleteListing, EnsureListingExists, SubmitForReview, CheckAutoApprove,
       RecordDecision, ApplyDecision, Record, FindListing, FindOrder, GetShare,
       GetProfile, marketVars
  <2> QED
    BY <1>0, <2>1, RestBalances
<1> QED
  BY <1>1, <1>2, <1>3, <1>4

LEMMA PayoutBalance ==
  ASSUME BalanceInv, SaleInv', NEW c \in Calls, PayoutStep(c)
  PROVE  BalanceInv'
<1>0. TypeInv /\ Found(c) /\ requests \in Seq(Requests) /\ Len(requests) \in Nat
  BY DEF BalanceInv, SaleInv, TypeInv, RowTypes
<1>1. CASE AskBalance(c) \/ FindRequest(c) \/ ReadTotal(c) \/ ReadPaid(c) \/ ReadPending(c)
  <2>1. UNCHANGED <<requests, earnings, profile, overlapped>>
    BY <1>1 DEF AskBalance, FindRequest, ReadTotal, ReadPaid, ReadPending, marketVars, payoutVars
  <2> QED
    BY <2>1, RestBalances
<1>2. CASE RequestPayout(c)
  <2>1. PICK r : r = PendingOf(req[c].amount)
    OBVIOUS
  <2>2. PICK k : k = Len(requests) + 1
    OBVIOUS
  <2>3. r \in Requests /\ r.status = "PENDING"
    BY <1>0, <2>1, TupleTypes DEF PendingOf, Requests, Statuses
  <2>4. /\ requests' = Append(requests, r) /\ UNCHANGED <<earnings, profile, overlapped>>
    BY <1>2, <2>1 DEF RequestPayout, marketVars
  <2>5. /\ DOMAIN requests' = DOMAIN requests \cup {k} /\ k \notin DOMAIN requests
        /\ requests'[k] = r /\ \A n \in DOMAIN requests : requests'[n] = requests[n]
    BY <1>0, <2>2, <2>3, <2>4
  <2>6. Amounts' = Amounts /\ Payouts' = Payouts /\ (\A n : DebitsOf(n)' = DebitsOf(n))
    BY <2>4 DEF Amounts, Payouts, DebitsOf
  <2>7. PayoutsHaveRequests'
    BY <2>4, <2>5, <2>6 DEF BalanceInv, PayoutsHaveRequests
  <2>8. ~overlapped => Balanced'
    <3> SUFFICES ASSUME ~overlapped PROVE Balanced'
      OBVIOUS
    <3>1. (profile.totalEarnings = Total(Amounts, DOMAIN earnings))'
      BY <2>4, <2>6 DEF BalanceInv, Balanced
    <3>2. ASSUME NEW n \in DOMAIN requests
          PROVE  Cardinality(DebitsOf(n)) = IF IsDebited(n)' THEN 1 ELSE 0
      BY <2>5 DEF BalanceInv, Balanced, IsDebited
    <3>3. DebitsOf(k) = {} /\ ~IsDebited(k)'
      BY <2>3, <2>5 DEF BalanceInv, PayoutsHaveRequests, DebitsOf, IsDebited
    <3>4. Cardinality(DebitsOf(k)) = IF IsDebited(k)' THEN 1 ELSE 0
      BY <3>3, FS_EmptySet
    <3> QED
      BY <2>5, <2>6, <3>1, <3>2, <3>4 DEF Balanced
  <2> QED
    BY <2>4, <2>7, <2>8 DEF BalanceInv
<1>3. CASE ApprovePayout(c)
  <2>1. PICK n : n = req[c].request
    OBVIOUS
  <2>2. PICK e : e = [type |-> "payout", ref |-> n, amount |-> -requests[n].amount]
    OBVIOUS
  <2>3. /\ n \in DOMAIN requests /\ n \in Nat
        /\ requests' = [requests EXCEPT ![n].status = "APPROVED"]
        /\ earnings' = Append(earnings, e)
        /\ profile' = [profile EXCEPT !.totalEarnings = Debited(c)]
        /\ overlapped' = (overlapped \/ profile.totalEarnings # sums[c].total
                                     \/ requests[n].status # "PENDING")
    BY <1>0, <1>3, <2>1, <2>2, TupleTypes
       DEF ApprovePayout, SetStatus, Request, Overlaps, MustBe, At, Found, PayoutOps
  <2>4. /\ DOMAIN requests' = DOMAIN requests /\ requests'[n].status = "APPROVED"
        /\ \A m \in DOMAIN requests : m # n => requests'[m] = requests[m]
        /\ requests[n].amount \in Int
    BY <1>0, <2>3, DecisionTypes DEF Statuses
  <2>5. e \in Earnings /\ e.type = "payout" /\ e.ref = n /\ e.amount = -requests[n].amount
    BY <2>2, <2>3, <2>4 DEF Earnings
  <2>6. PayoutsHaveRequests'
    <3>1. /\ DOMAIN earnings' = DOMAIN earnings \cup {Len(earnings) + 1}
          /\ earnings'[Len(earnings) + 1] = e
          /\ \A i \in DOMAIN earnings : earnings'[i] = earnings[i]
      BY <1>0, <2>3, <2>5, AppendEarning
    <3>2. \A i \in Payouts' : \/ i \in Payouts /\ earnings'[i] = earnings[i]
                              \/ earnings'[i] = e
      BY <3>1 DEF Payouts
    <3> QED
      BY <2>3, <2>4, <2>5, <3>2 DEF BalanceInv, PayoutsHaveRequests
  <2>7. ~overlapped' => Balanced'
    <3> SUFFICES ASSUME ~overlapped' PROVE Balanced'
      OBVIOUS
    <3>0. Balanced /\ profile.totalEarnings = sums[c].total /\ ~IsDebited(n)
      BY <2>3 DEF BalanceInv, IsDebited
    <3>1. (profile.totalEarnings = Total(Amounts, DOMAIN earnings))'
      <4>1. profile'.totalEarnings = profile.totalEarnings - requests[n].amount
        BY <1>0, <2>1, <2>3, <3>0 DEF Debited, Request, TypeInv, RowTypes, Profiles
      <4>2. Total(Amounts, DOMAIN earnings)' = Total(Amounts, DOMAIN earnings) + e.amount
        BY <1>0, <2>3, <2>5, AppendTotal
      <4>3. profile.totalEarnings \in Int
        BY <1>0, RowFields
      <4> QED
        BY <2>4, <2>5, <3>0, <4>1, <4>2, <4>3 DEF Balanced
    <3>2. ASSUME NEW m \in DOMAIN requests
          PROVE  Cardinality(DebitsOf(m)') = IF IsDebited(m)' THEN 1 ELSE 0
      <4>1. Cardinality(DebitsOf(m)') = Cardinality(DebitsOf(m)) + (IF m = n THEN 1 ELSE 0)
        BY <1>0, <2>3, <2>5, AppendDebits
      <4>2. Cardinality(DebitsOf(m)) = IF IsDebited(m) THEN 1 ELSE 0
        BY <3>0 DEF Balanced
      <4>3. IF m = n THEN IsDebited(m)' ELSE IsDebited(m)' = IsDebited(m)
        BY <2>4 DEF IsDebited
      <4> QED
        BY <3>0, <4>1, <4>2, <4>3
    <3> QED
      BY <2>4, <3>1, <3>2 DEF Balanced
  <2> QED
    BY <2>6, <2>7 DEF BalanceInv
<1>4. CASE RejectPayout(c) \/ CancelPayout(c) \/ ProcessPayout(c)
  <2>1. PICK op, status :
          /\ Decide(c, op, status)
          /\ \/ op \in {"reject-payout", "cancel-payout"} /\ status \in {"REJECTED", "CANCELLED"}
             \/ op = "process-payout" /\ status = "PROCESSED"
    BY <1>4 DEF RejectPayout, CancelPayout, ProcessPayout
  <2>2. PICK n : n = req[c].request
    OBVIOUS
  <2>3. /\ n \in DOMAIN requests
        /\ requests' = [requests EXCEPT ![n].status = status]
        /\ UNCHANGED <<earnings, profile>>
        /\ overlapped' = (overlapped \/ requests[n].status #
                                          IF op = "process-payout" THEN "APPROVED" ELSE "PENDING")
    BY <1>0, <2>1, <2>2 DEF Decide, SetStatus, Request, Overlaps, MustBe, At, Found, PayoutOps,
                            marketVars
  <2>4. /\ DOMAIN requests' = DOMAIN requests /\ requests'[n].status = status
        /\ \A m \in DOMAIN requests : m # n => requests'[m] = requests[m]
    BY <1>0, <2>1, <2>3, DecisionTypes DEF Statuses
  <2>5. Amounts' = Amounts /\ Payouts' = Payouts /\ (\A m : DebitsOf(m)' = DebitsOf(m))
    BY <2>3 DEF Amounts, Payouts, DebitsOf
  <2>6. PayoutsHaveRequests'
    BY <2>3, <2>4, <2>5 DEF BalanceInv, PayoutsHaveRequests
  <2>7. ~overlapped' => Balanced'
    <3> SUFFICES ASSUME ~overlapped' PROVE Balanced'
      OBVIOUS
    <3>0. Balanced
      BY <2>3 DEF BalanceInv
    <3>1. (profile.totalEarnings = Total(Amounts, DOMAIN earnings))'
      BY <2>3, <2>5, <3>0 DEF Balanced
    <3>2. ASSUME NEW m \in DOMAIN requests PROVE IsDebited(m)' <=> IsDebited(m)
      <4>1. requests[n].status = IF op = "process-payout" THEN "APPROVED" ELSE "PENDING"
        BY <2>3
      <4>2. CASE m = n
        BY <2>1, <2>4, <4>1, <4>2 DEF IsDebited
      <4>3. CASE m # n
        BY <2>4, <4>3 DEF IsDebited
      <4> QED
        BY <4>2, <4>3
    <3> QED
      BY <2>4, <2>5, <3>0, <3>1, <3>2 DEF Balanced
  <2> QED
    BY <2>6, <2>7 DEF BalanceInv
<1> QED
  BY <1>1, <1>2, <1>3, <1>4 DEF PayoutStep

LEMMA StepBalance == BalanceInv /\ [Next]_vars => BalanceInv'
<1>1. ASSUME BalanceInv, UNCHANGED vars PROVE BalanceInv'
  <2>1. SaleInv'
    BY <1>1, StepSale DEF BalanceInv
  <2> QED
    BY <1>1, <2>1, RestBalances DEF vars, marketVars, payoutVars
<1>2. ASSUME BalanceInv, NEW c \in Calls, StepOf(c) PROVE BalanceInv'
  <2>1. SaleInv'
    BY <1>2, StepSale DEF BalanceInv, Next, StepOf
  <2> QED
    BY <1>2, <2>1, MarketBalance, PayoutBalance DEF StepOf
<1> QED
  BY <1>1, <1>2 DEF Next, StepOf

\* PayoutService: as long as no decision was written over another one's change, the
\* profile's total is what the earnings add up to, and every request is debited once if
\* it was approved and not at all otherwise.
THEOREM BalanceSafety == Spec => []BooksBalance
<1>1. BalanceInv => BooksBalance
  <2> SUFFICES ASSUME BalanceInv, ~overlapped PROVE BooksBalance
    BY DEF BooksBalance
  <2>1. SumEarnings(DOMAIN earnings) = Total(Amounts, DOMAIN earnings)
    BY EarningsAreTotal DEF BalanceInv, SaleInv
  <2> QED
    BY <2>1 DEF BalanceInv, Balanced, BooksBalance, IsDebited
<1> QED
  BY InitBalance, StepBalance, <1>1, PTL DEF Spec

(***************************************************************************)
(* Type correctness, with what is read of the balance.                     *)
(***************************************************************************)

SumsTyped ==
  /\ sums \in [Calls -> [total : Int, paid : Int, pending : Int]]
  /\ overlapped \in BOOLEAN

LEMMA StepSums ==
  ASSUME SaleInv, SumsTyped, [Next]_vars
  PROVE  SumsTyped'
<1>0. TypeInv
  BY DEF SaleInv
<1>1. ASSUME UNCHANGED <<sums, overlapped>> PROVE SumsTyped'
  BY <1>1 DEF SumsTyped
<1>2. ASSUME NEW c \in Calls, PayoutStep(c) PROVE SumsTyped'
  <2>1. CASE AskBalance(c) \/ FindRequest(c)
    BY <1>1, <2>1 DEF AskBalance, FindRequest, payoutVars
  <2>2. CASE ReadTotal(c)
    BY <1>0, <2>2, RowFields DEF ReadTotal, SumsTyped
  <2>3. CASE ReadPaid(c)
    <3>1. SumEarnings(Payouts) \in Int
      BY <1>0, EarningsAreTotal DEF Payouts
    <3>2. sums' = [sums EXCEPT ![c].paid = SumEarnings(Payouts)] /\ UNCHANGED overlapped
      BY <2>3 DEF ReadPaid
    <3> QED
      BY <3>1, <3>2 DEF SumsTyped
  <2>4. CASE ReadPending(c)
    <3>1. PICK others : others = SumRequests(Pending \ {req[c].request})
      OBVIOUS
    <3>2. others \in Int
      BY <1>0, <3>1, RequestsAreTotal DEF Pending
    <3>3. sums' = [sums EXCEPT ![c].pending = others] /\ UNCHANGED overlapped
      BY <2>4, <3>1 DEF ReadPending
    <3> QED
      BY <3>2, <3>3 DEF SumsTyped
  <2>5. CASE RequestPayout(c)
    BY <1>1, <2>5 DEF RequestPayout
  <2>6. CASE ApprovePayout(c) \/ RejectPayout(c) \/ CancelPayout(c) \/ ProcessPayout(c)
    <3>1. UNCHANGED sums /\ \E stale : Overlaps(c, stale)
      BY <2>6 DEF ApprovePayout, RejectPayout, CancelPayout, ProcessPayout, Decide
    <3> QED
      BY <3>1 DEF Overlaps, SumsTyped
  <2> QED
    BY <1>2, <2>1, <2>2, <2>3, <2>4, <2>5, <2>6 DEF PayoutStep
<1>3. CASE UNCHANGED payoutVars
  BY <1>1, <1>3 DEF payoutVars
<1> QED
  BY <1>2, <1>3 DEF Next, vars

\* The rows and the calls keep their types: what the marketplace and the payouts add up
\* stays an integer.
THEOREM TypeCorrect == Spec => []TypeOK
<1>1. Init => SumsTyped
  <2>1. NoSums \in [total : Int, paid : Int, pending : Int]
    BY DEF NoSums
  <2> QED
    BY <2>1 DEF Init, SumsTyped
<1>2. SaleInv /\ SumsTyped => TypeOK
  BY DEF SaleInv, TypeInv, RowTypes, CallTypes, SumsTyped, TypeOK, MarketTypeOK
<1>3. SaleInv /\ SumsTyped /\ [Next]_vars => (SaleInv /\ SumsTyped)'
  BY StepSale, StepSums
<1> QED
  BY InitSale, <1>1, <1>2, <1>3, PTL DEF Spec

(***************************************************************************)
(* The available balance.  The comment on it says that what was paid out   *)
(* is subtracted; but totalEarnings has lost it already, the payouts'      *)
(* earnings are negative, and their sum is subtracted.                     *)
(***************************************************************************)

LEMMA EarningsSplit ==
  ASSUME TypeInv
  PROVE  Total(Amounts, DOMAIN earnings) = SumEarnings(Sales) + SumEarnings(Payouts)
<1>1. PICK S : S = DOMAIN earnings
  OBVIOUS
<1>2. PICK a : a = Amounts
  OBVIOUS
<1>3. /\ IsFiniteSet(S) /\ \A i \in S : a[i] \in Int
  BY <1>1, <1>2, RecordFacts
<1>4. \A i \in S : earnings[i].type \in {"sale", "payout"}
  <2>1. \A i \in S : earnings[i] \in Earnings
    BY <1>1 DEF TypeInv, RowTypes
  <2> QED
    BY <2>1 DEF Earnings
<1>5. Sales \in SUBSET S /\ Payouts \in SUBSET S /\ Payouts = S \ Sales
  BY <1>1, <1>4 DEF Sales, Payouts
<1>6. Total(a, S) = Total(a, Sales) + Total(a, S \ Sales)
  BY <1>3, <1>5, TotalSplit
<1>7. SumEarnings(Sales) = Total(a, Sales) /\ SumEarnings(Payouts) = Total(a, Payouts)
  BY <1>1, <1>2, <1>5, EarningsAreTotal
<1> QED
  BY <1>1, <1>2, <1>5, <1>6, <1>7

\* As long as the books balance, and the total has not moved since it was read, the
\* first two reads come to all sales there ever were: nothing paid out is subtracted.
PayoutsAreNotSubtracted ==
  \A c \in Calls :
    ReadPaid(c) /\ ~overlapped /\ sums[c].total = profile.totalEarnings =>
      (Available(c, 0))' = SumEarnings(Sales)

\* PayoutService.getBalance and approvePayout compute the available balance as the
\* gross sales less the other pending requests, whatever was paid before.
THEOREM AvailableIsGross == Spec => [][PayoutsAreNotSubtracted]_vars
<1>1. BalanceInv /\ TypeOK /\ [Next]_vars => [PayoutsAreNotSubtracted]_vars
  <2> SUFFICES ASSUME BalanceInv, TypeOK, NEW c \in Calls, ReadPaid(c), ~overlapped,
                      sums[c].total = profile.totalEarnings
               PROVE  sums'[c].total - sums'[c].paid - 0 = SumEarnings(Sales)
    BY DEF PayoutsAreNotSubtracted, Available
  <2>0. TypeInv
    BY DEF BalanceInv, SaleInv
  <2>1. sums'[c].total = sums[c].total /\ sums'[c].paid = SumEarnings(Payouts)
    <3>1. PICK paid : paid = SumEarnings(Payouts)
      OBVIOUS
    <3>2. sums' = [sums EXCEPT ![c].paid = paid]
      BY <3>1 DEF ReadPaid
    <3>3. sums \in [Calls -> [total : Int, paid : Int, pending : Int]]
      BY DEF TypeOK
    <3> QED
      BY <3>1, <3>2, <3>3
  <2>2. sums[c].total = SumEarnings(Sales) + SumEarnings(Payouts)
    BY <2>0, EarningsSplit DEF BalanceInv, Balanced
  <2>3. SumEarnings(Sales) \in Int /\ SumEarnings(Payouts) \in Int
    <3>1. Sales \in SUBSET DOMAIN earnings /\ Payouts \in SUBSET DOMAIN earnings
      BY DEF Sales, Payouts
    <3> QED
      BY <2>0, <3>1, EarningsAreTotal
  <2> QED
    BY <2>1, <2>2, <2>3
<1> QED
  BY <1>1, TypeCorrect, InitBalance, StepBalance, PTL DEF Spec
=============================================================================
