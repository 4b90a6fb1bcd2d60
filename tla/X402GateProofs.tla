--------------------------- MODULE X402GateProofs ---------------------------
(***************************************************************************)
(* Proofs about X402Gate for any routes, prices, addresses and number of   *)
(* requests: a payment settles a PaymentIntent of its own price, nobody is *)
(* served for one that settled nothing, and a payment to a minted address  *)
(* charges that address and no other.                                      *)
(***************************************************************************)
EXTENDS X402Gate, TLAPS

\* A request that has arrived has a route and a header; one that is settling
\* matched a challenge.
Placed ==
  \A r \in Requests :
    /\ ~At(r, "idle") => req[r] # NULL
    /\ At(r, "idle") => answer[r] = "none" /\ target[r] = NULL
    /\ pc[r] \in {"settling", "retrieving"} => target[r] # NULL
    /\ At(r, "minting") => index[r] <= Len(Accepts[req[r].route])
    /\ answer[r] # "none" => At(r, "done")

\* A challenge is of a PaymentIntent that was minted for its price, and the one
\* of a minted address is of that PaymentIntent.
BookPriced ==
  \A a \in PayTos : book[a] # NULL =>
    /\ phase[book[a].pi] # "none"
    /\ price[book[a].pi] = book[a].price
    /\ a \in PIs => book[a].pi = a

\* What a request matched stays what its header names.
TargetPriced ==
  \A r \in Requests : target[r] # NULL =>
    /\ req[r] # NULL /\ Hdr(r) \in Payment
    /\ phase[target[r]] # "none"
    /\ price[target[r]] = Hdr(r).value
    /\ Hdr(r).to \in PIs => target[r] = Hdr(r).to

\* A charge is by a payment that names its PaymentIntent at its price.
ChargePriced ==
  \A p \in PIs :
    /\ phase[p] = "paid" => chargedBy[p] # NULL
    /\ phase[p] = "none" => chargedBy[p] = NULL
    /\ chargedBy[p] # NULL => /\ chargedBy[p].value = price[p]
                              /\ chargedBy[p].to \in PIs => p = chargedBy[p].to

Inv == /\ TypeOK /\ Placed /\ BookPriced /\ TargetPriced /\ ChargePriced
       /\ ServedIsPaid /\ SettledIsBacked

-----------------------------------------------------------------------------
(* Type correctness. *)

USE DEF PIs, PayTos

LEMMA InitType == Init => TypeOK
BY BoundAssumption DEF Init, TypeOK

\* The entry a request is at is one of its route's.
LEMMA EntryType ==
  ASSUME TypeOK, NEW r \in Requests, req[r] # NULL,
         index[r] <= Len(Accepts[req[r].route])
  PROVE  EntryOf(r) \in Entry
<1>1. Accepts[req[r].route] \in Seq(Entry)
  BY AcceptsAssumption DEF TypeOK, Request
<1>2. index[r] \in 1 .. Len(Accepts[req[r].route])
  BY <1>1 DEF TypeOK
<1> QED BY <1>1, <1>2 DEF EntryOf

LEMMA OfferType ==
  ASSUME TypeOK, NEW r \in Requests, req[r] # NULL, EntryOf(r) \in Entry,
         NEW a \in PayTos, NEW p \in PIs, Offer(r, a, p)
  PROVE  /\ book' \in [PayTos -> Challenge \cup {NULL}]
         /\ offers' \subseteq [payTo : PayTos, price : Prices, until : Nat]
         /\ index' \in [Requests -> Nat \ {0}]
<1>1. [route |-> req[r].route, index |-> index[r], price |-> EntryOf(r).price,
       pi |-> p, createdAt |-> now] \in Challenge
  BY BoundAssumption DEF TypeOK, Challenge, Entry, Request
<1>2. [payTo |-> a, price |-> EntryOf(r).price, until |-> now + TTL]
        \in [payTo : PayTos, price : Prices, until : Nat]
  BY BoundAssumption DEF TypeOK, Entry
<1>3. book' \in [PayTos -> Challenge \cup {NULL}]
  BY <1>1 DEF Offer, TypeOK
<1>4. offers' \subseteq [payTo : PayTos, price : Prices, until : Nat]
  BY <1>2 DEF Offer, TypeOK
<1>5. index' \in [Requests -> Nat \ {0}]
  BY DEF Offer, NextEntry, TypeOK
<1> QED BY <1>3, <1>4, <1>5

LEMMA NextType == TypeOK /\ Placed /\ TargetPriced /\ [Next]_vars => TypeOK'
<1> SUFFICES ASSUME TypeOK, Placed, TargetPriced, [Next]_vars PROVE TypeOK'
  OBVIOUS
<1> USE DEF At, Goto, Answer, twin, gate
<1>1. ASSUME NEW r \in Requests, NEW route \in Routes, NEW h \in Header,
             Arrive(r, route, h)
      PROVE TypeOK'
  <2>1. req' \in [Requests -> Request \cup {NULL}]
    BY <1>1 DEF Arrive, TypeOK, Request
  <2>2. /\ UNCHANGED <<now, twin, index, offers>>
        /\ settled' = settled
    BY <1>1 DEF Arrive
  <2>3. /\ pc' \in [Requests -> {"idle", "offering", "minting", "settling", "retrieving", "done"}]
        /\ answer' \in [Requests -> {"none", "served", "402", "500"}]
    BY <1>1 DEF Arrive, TypeOK
  <2>4. book' \in [PayTos -> Challenge \cup {NULL}]
    BY <1>1 DEF Arrive, Evict, TypeOK
  <2>5. target' \in [Requests -> PIs \cup {NULL}]
    <3>1. CASE h \in Payment /\ Matches(h, Lookup(h.to))
      <4>1. Lookup(h.to) \in Challenge
        BY <3>1 DEF Matches, Lookup, TypeOK, Payment
      <4>2. Lookup(h.to).pi \in PIs
        BY <4>1 DEF Challenge
      <4> QED BY <1>1, <3>1, <4>2 DEF Arrive, TypeOK
    <3>2. CASE ~(h \in Payment /\ Matches(h, Lookup(h.to)))
      BY <1>1, <3>2 DEF Arrive, TypeOK
    <3> QED BY <3>1, <3>2
  <2> QED BY <2>1, <2>2, <2>3, <2>4, <2>5 DEF TypeOK
<1>2. ASSUME NEW r \in Requests, Reuse(r) PROVE TypeOK'
  <2>1. req[r] # NULL /\ EntryOf(r) \in Entry
    BY <1>2, EntryType DEF Reuse, Placed
  <2>2. PICK a \in Reusable(r) : Offer(r, a, book[a].pi)
    BY <1>2 DEF Reuse
  <2>3. a \in PayTos /\ book[a].pi \in PIs
    BY <2>2 DEF Reusable, Fresh, TypeOK, Challenge
  <2>4. /\ book' \in [PayTos -> Challenge \cup {NULL}]
        /\ offers' \subseteq [payTo : PayTos, price : Prices, until : Nat]
        /\ index' \in [Requests -> Nat \ {0}]
    BY <2>1, <2>2, <2>3, OfferType
  <2> QED BY <1>2, <2>4 DEF Reuse, TypeOK
<1>3. ASSUME NEW r \in Requests, StartMint(r) PROVE TypeOK'
  BY <1>3 DEF StartMint, TypeOK
<1>4. ASSUME NEW r \in Requests, Mint(r) PROVE TypeOK'
  <2>1. req[r] # NULL /\ EntryOf(r) \in Entry
    BY <1>4, EntryType DEF Mint, Placed
  <2>2. PICK p \in PIs :
          /\ phase' = [phase EXCEPT ![p] = "open"]
          /\ price' = [price EXCEPT ![p] = EntryOf(r).price]
          /\ Offer(r, PayTo(EntryOf(r), p), p)
    BY <1>4 DEF Mint
  <2>3. PayTo(EntryOf(r), p) \in PayTos
    BY <2>1 DEF PayTo, Entry
  <2>4. /\ book' \in [PayTos -> Challenge \cup {NULL}]
        /\ offers' \subseteq [payTo : PayTos, price : Prices, until : Nat]
        /\ index' \in [Requests -> Nat \ {0}]
    BY <2>1, <2>2, <2>3, OfferType
  <2>5. EntryOf(r).price \in Prices
    BY <2>1 DEF Entry
  <2> QED BY <1>4, <2>2, <2>4, <2>5 DEF Mint, TypeOK
<1>5. ASSUME NEW r \in Requests, MintFails(r) \/ Challenged(r) PROVE TypeOK'
  BY <1>5 DEF MintFails, Challenged, TypeOK
<1>6. ASSUME NEW r \in Requests, Deposit(r) PROVE TypeOK'
  <2>1. target[r] \in PIs /\ Hdr(r) \in Payment
    BY <1>6 DEF Deposit, Placed, TargetPriced, TypeOK
  <2>3. phase' \in [PIs -> {"none", "open", "paid", "gone"}]
    BY <1>6, <2>1 DEF Deposit, TypeOK
  <2>4. chargedBy' \in [PIs -> Payment \cup {NULL}]
    BY <1>6, <2>1 DEF Deposit, TypeOK
  <2>5. settled' \subseteq Payment /\ book' = book
    BY <1>6, <2>1 DEF Deposit, Serve, SettledKey, TypeOK
  <2>6. /\ pc' \in [Requests -> {"idle", "offering", "minting", "settling", "retrieving", "done"}]
        /\ answer' \in [Requests -> {"none", "served", "402", "500"}]
    BY <1>6 DEF Deposit, Serve, TypeOK
  <2> QED BY <1>6, <2>3, <2>4, <2>5, <2>6 DEF Deposit, TypeOK
<1>7. ASSUME NEW r \in Requests, Retrieve(r) PROVE TypeOK'
  <2>1. Hdr(r) \in Payment
    BY <1>7 DEF Retrieve, Placed, TargetPriced
  <2> QED BY <1>7, <2>1 DEF Retrieve, Serve, SettledKey, TypeOK
<1>8. ASSUME Tick PROVE TypeOK'
  BY <1>8, BoundAssumption DEF Tick, TypeOK
<1>9. ASSUME NEW p \in PIs, Cancel(p) PROVE TypeOK'
  BY <1>9 DEF Cancel, TypeOK
<1>10. ASSUME Wipe PROVE TypeOK'
  BY <1>10, BoundAssumption DEF Wipe, TypeOK
<1>11. CASE UNCHANGED vars
  BY <1>11 DEF vars, TypeOK
<1> QED BY <1>1, <1>2, <1>3, <1>4, <1>5, <1>6, <1>7, <1>8, <1>9, <1>10, <1>11
        DEF Next, Progress

-----------------------------------------------------------------------------
(* Where the requests are. *)

LEMMA NextPlaced == TypeOK /\ Placed /\ [Next]_vars => Placed'
<1> SUFFICES ASSUME TypeOK, Placed, [Next]_vars PROVE Placed'
  OBVIOUS
<1> USE DEF At, Goto, Answer, twin, gate, TypeOK, Placed
<1>1. ASSUME NEW r \in Requests, NEW route \in Routes, NEW h \in Header,
             Arrive(r, route, h)
      PROVE Placed'
  <2>1. /\ req' = [req EXCEPT ![r] = [route |-> route, header |-> h]]
        /\ req'[r] # NULL
    BY <1>1, DistinctAssumption DEF Arrive, Request
  <2>2. pc'[r] \in {"done", "offering", "settling"} /\ answer'[r] # "none" => pc'[r] = "done"
    BY <1>1 DEF Arrive
  <2>3. pc'[r] = "settling" => target'[r] # NULL
    BY <1>1, DistinctAssumption DEF Arrive, Matches, Lookup, Payment, Challenge
  <2>4. \A s \in Requests \ {r} : /\ pc'[s] = pc[s] /\ answer'[s] = answer[s]
                                  /\ target'[s] = target[s] /\ req'[s] = req[s]
    BY <1>1 DEF Arrive
  <2> QED BY <1>1, <2>1, <2>2, <2>3, <2>4 DEF Arrive
<1>2. ASSUME NEW r \in Requests, Reuse(r) PROVE Placed'
  BY <1>2 DEF Reuse, Offer
<1>3. ASSUME NEW r \in Requests, StartMint(r) PROVE Placed'
  BY <1>3 DEF StartMint
<1>4. ASSUME NEW r \in Requests, Mint(r) PROVE Placed'
  BY <1>4 DEF Mint, Offer
<1>5. ASSUME NEW r \in Requests, MintFails(r) \/ Challenged(r) PROVE Placed'
  BY <1>5 DEF MintFails, Challenged
<1>6. ASSUME NEW r \in Requests, Deposit(r) PROVE Placed'
  BY <1>6 DEF Deposit, Serve
<1>7. ASSUME NEW r \in Requests, Retrieve(r) PROVE Placed'
  BY <1>7 DEF Retrieve, Serve
<1>8. CASE Tick \/ Wipe \/ \E p \in PIs : Cancel(p)
  BY <1>8 DEF Tick, Wipe, Cancel
<1>9. CASE UNCHANGED vars
  BY <1>9 DEF vars
<1> QED BY <1>1, <1>2, <1>3, <1>4, <1>5, <1>6, <1>7, <1>8, <1>9 DEF Next, Progress

-----------------------------------------------------------------------------
(* Prices, challenges and charges. *)

Priced == BookPriced /\ TargetPriced /\ ChargePriced /\ ServedIsPaid /\ SettledIsBacked

LEMMA ChallengePI ==
  ASSUME TypeOK, NEW a \in PayTos, book[a] # NULL
  PROVE  book[a].pi \in PIs
<1>1. book[a] \in Challenge
  BY DEF TypeOK
<1> QED BY <1>1 DEF Challenge

\* A step that writes no challenge, matches no header, charges nothing and
\* serves nobody.
LEMMA Inert ==
  ASSUME Inv, UNCHANGED <<book, settled, target, req, chargedBy, price>>,
         \A p \in PIs : /\ phase'[p] = "none" <=> phase[p] = "none"
                        /\ phase'[p] = "paid" => phase[p] = "paid",
         \A r \in Requests : answer'[r] = "served" => answer[r] = "served"
  PROVE  Priced'
<1>1. BookPriced'
  BY ChallengePI DEF Inv, BookPriced
<1>2. TargetPriced'
  BY DEF Inv, TargetPriced, TypeOK, Hdr
<1>3. ChargePriced'
  BY DEF Inv, ChargePriced
<1>4. ServedIsPaid' /\ SettledIsBacked'
  BY DEF Inv, ServedIsPaid, SettledIsBacked, Hdr
<1> QED BY <1>1, <1>2, <1>3, <1>4 DEF Priced

\* A challenge written for a PaymentIntent at its price.
LEMMA Offered ==
  ASSUME Inv, NEW r \in Requests, NEW a \in PayTos, NEW p \in PIs,
         Offer(r, a, p), a \in PIs => p = a,
         phase'[p] # "none", price'[p] = EntryOf(r).price,
         UNCHANGED <<settled, target, req, chargedBy, answer>>,
         \A q \in PIs : /\ phase[q] # "none" => phase'[q] # "none" /\ price'[q] = price[q]
                        /\ phase'[q] = "paid" => phase[q] = "paid"
                        /\ phase'[q] = "none" => phase[q] = "none"
  PROVE  Priced'
<1>1. /\ \A b \in PayTos \ {a} : book'[b] = book[b]
      /\ book'[a].pi = p /\ book'[a].price = EntryOf(r).price
  BY DEF Offer, Inv, TypeOK
<1>2. BookPriced'
  <2> SUFFICES ASSUME NEW b \in PayTos, book'[b] # NULL
               PROVE  /\ phase'[book'[b].pi] # "none"
                      /\ price'[book'[b].pi] = book'[b].price
                      /\ b \in PIs => book'[b].pi = b
    BY DEF BookPriced
  <2>1. CASE b = a
    BY <1>1, <2>1
  <2>2. CASE b # a
    <3>1. book'[b] = book[b] /\ book[b].pi \in PIs
      BY <1>1, <2>2, ChallengePI DEF Inv
    <3>2. /\ phase[book[b].pi] # "none" /\ price[book[b].pi] = book[b].price
          /\ b \in PIs => book[b].pi = b
      BY <3>1 DEF Inv, BookPriced
    <3> QED BY <3>1, <3>2
  <2> QED BY <2>1, <2>2
<1>3. TargetPriced'
  BY DEF Inv, TargetPriced, TypeOK, Hdr
<1>4. ChargePriced'
  BY DEF Inv, ChargePriced
<1>5. \A q \in PIs : chargedBy[q] # NULL => price'[q] = price[q]
  BY DEF Inv, ChargePriced
<1>6. ServedIsPaid'
  BY <1>5 DEF Inv, ServedIsPaid, Hdr, TypeOK
<1>7. SettledIsBacked'
  BY <1>5 DEF Inv, SettledIsBacked
<1> QED BY <1>2, <1>3, <1>4, <1>6, <1>7 DEF Priced

\* A request that matched its header is served for a PaymentIntent that is charged.
LEMMA Served ==
  ASSUME Inv, NEW r \in Requests, target[r] # NULL, chargedBy'[target[r]] # NULL,
         \A p \in PIs : chargedBy[p] # NULL => chargedBy'[p] # NULL,
         UNCHANGED <<price, target, req>>,
         \/ settled' = settled /\ answer' = answer
         \/ settled' = settled \cup {Hdr(r)} /\ answer' = [answer EXCEPT ![r] = "served"]
  PROVE  ServedIsPaid' /\ SettledIsBacked'
<1>1. /\ target[r] \in PIs /\ price[target[r]] = Hdr(r).value
      /\ Hdr(r).to \in PIs => target[r] = Hdr(r).to
  BY DEF Inv, TargetPriced, TypeOK
<1>2. ServedIsPaid'
  <2> SUFFICES ASSUME NEW s \in Requests, answer'[s] = "served", target[s] # NULL
               PROVE  chargedBy'[target[s]] # NULL /\ price[target[s]] = Hdr(s).value
    BY DEF ServedIsPaid, Hdr
  <2>1. CASE s = r
    BY <1>1, <2>1
  <2>2. CASE s # r
    BY <2>2 DEF Inv, ServedIsPaid, TypeOK
  <2> QED BY <2>1, <2>2
<1>3. SettledIsBacked'
  BY <1>1 DEF Inv, SettledIsBacked
<1> QED BY <1>2, <1>3

LEMMA NextPriced == Inv /\ [Next]_vars => Priced'
<1> SUFFICES ASSUME Inv, [Next]_vars PROVE Priced'
  OBVIOUS
<1> USE DEF At, Goto, Answer, twin, gate
<1>1. ASSUME NEW r \in Requests, NEW route \in Routes, NEW h \in Header,
             Arrive(r, route, h)
      PROVE Priced'
  <2>1. /\ answer[r] = "none" /\ target[r] = NULL
        /\ UNCHANGED <<twin, settled>> /\ Hdr(r)' = h /\ req'[r] # NULL
        /\ \A s \in Requests \ {r} : /\ req'[s] = req[s] /\ target'[s] = target[s]
                                     /\ answer'[s] = answer[s]
    <3>1. answer[r] = "none" /\ target[r] = NULL
      BY <1>1 DEF Arrive, Inv, Placed
    <3>2. UNCHANGED <<twin, settled>>
      BY <1>1 DEF Arrive
    <3>3. req' = [req EXCEPT ![r] = [route |-> route, header |-> h]]
      BY <1>1 DEF Arrive
    <3>4. Hdr(r)' = h /\ req'[r] # NULL
      BY <3>3, DistinctAssumption DEF Inv, TypeOK, Hdr, Request
    <3>5. \A s \in Requests \ {r} : /\ req'[s] = req[s] /\ target'[s] = target[s]
                                    /\ answer'[s] = answer[s]
      BY <1>1, <3>3 DEF Arrive, Inv, TypeOK
    <3> QED BY <3>1, <3>2, <3>4, <3>5
  <2>2. target'[r] # NULL =>
          /\ h \in Payment /\ Lookup(h.to) # NULL
          /\ target'[r] = Lookup(h.to).pi /\ h.value = Lookup(h.to).price
          /\ answer'[r] # "served"
    BY <1>1, <2>1 DEF Arrive, Matches, Inv, TypeOK
  <2>3. \A a \in PayTos : book'[a] = book[a] \/ book'[a] = NULL
    <3>1. book' = book \/ \E a \in PayTos : book' = [book EXCEPT ![a] = NULL]
      BY <1>1 DEF Arrive, Evict, Payment
    <3> QED BY <3>1 DEF Inv, TypeOK
  <2>4. BookPriced'
    BY <2>1, <2>3 DEF Inv, BookPriced
  <2>5. TargetPriced'
    <3> SUFFICES ASSUME NEW s \in Requests, target'[s] # NULL
                 PROVE  /\ req'[s] # NULL /\ Hdr(s)' \in Payment
                        /\ phase[target'[s]] # "none"
                        /\ price[target'[s]] = Hdr(s)'.value
                        /\ Hdr(s)'.to \in PIs => target'[s] = Hdr(s)'.to
      BY <2>1 DEF TargetPriced, Hdr
    <3>1. CASE s = r
      <4>1. h \in Payment /\ h.to \in PayTos /\ Lookup(h.to) = book[h.to] /\ book[h.to] # NULL
        BY <2>2, <3>1 DEF Lookup, Payment
      <4>2. /\ phase[book[h.to].pi] # "none" /\ price[book[h.to].pi] = book[h.to].price
            /\ h.to \in PIs => book[h.to].pi = h.to
        BY <4>1 DEF Inv, BookPriced
      <4> QED BY <2>1, <2>2, <3>1, <4>1, <4>2
    <3>2. CASE s # r
      BY <2>1, <3>2 DEF Inv, TargetPriced, Hdr
    <3> QED BY <3>1, <3>2
  <2>6. ChargePriced' /\ SettledIsBacked'
    BY <2>1 DEF Inv, ChargePriced, SettledIsBacked
  <2>7. ServedIsPaid'
    BY <2>1, <2>2 DEF Inv, ServedIsPaid, Hdr
  <2> QED BY <2>4, <2>5, <2>6, <2>7 DEF Priced
<1>2. ASSUME NEW r \in Requests, Reuse(r) PROVE Priced'
  <2>1. PICK a \in Reusable(r) : Offer(r, a, book[a].pi)
    BY <1>2 DEF Reuse
  <2>2. /\ a \in PIs /\ a \in PayTos /\ book[a] # NULL /\ book[a].price = EntryOf(r).price
        /\ book[a].pi \in PIs
    BY <2>1 DEF Reusable, Fresh, Inv, TypeOK, Challenge
  <2>3. /\ book[a].pi = a /\ phase[a] # "none" /\ price[a] = EntryOf(r).price
    BY <2>2 DEF Inv, BookPriced
  <2>4. UNCHANGED <<phase, price, settled, target, req, chargedBy, answer>>
    BY <1>2 DEF Reuse
  <2> QED BY <2>1, <2>2, <2>3, <2>4, Offered
<1>3. ASSUME NEW r \in Requests, Mint(r) PROVE Priced'
  <2>1. req[r] # NULL /\ EntryOf(r) \in Entry
    BY <1>3, EntryType DEF Mint, Inv, Placed
  <2>2. PICK p \in PIs :
          /\ phase[p] = "none"
          /\ phase' = [phase EXCEPT ![p] = "open"]
          /\ price' = [price EXCEPT ![p] = EntryOf(r).price]
          /\ Offer(r, PayTo(EntryOf(r), p), p)
    BY <1>3 DEF Mint
  <2> DEFINE a == PayTo(EntryOf(r), p)
  <2>3. a \in PayTos /\ (a \in PIs => p = a)
    BY <2>1, BoundAssumption, DistinctAssumption DEF PayTo, Entry
  <2>4. UNCHANGED <<settled, target, req, chargedBy, answer>>
    BY <1>3 DEF Mint
  <2>5. /\ phase'[p] # "none" /\ price'[p] = EntryOf(r).price
        /\ \A q \in PIs : /\ phase[q] # "none" => phase'[q] # "none" /\ price'[q] = price[q]
                          /\ phase'[q] = "paid" => phase[q] = "paid"
                          /\ phase'[q] = "none" => phase[q] = "none"
    BY <2>2 DEF Inv, TypeOK
  <2> HIDE DEF a
  <2>6. Offer(r, a, p)
    BY <2>2 DEF a
  <2> QED BY <2>3, <2>4, <2>5, <2>6, Offered
<1>4. ASSUME NEW r \in Requests, StartMint(r) \/ MintFails(r) \/ Challenged(r) PROVE Priced'
  <2>1. \A s \in Requests : answer'[s] = "served" => answer[s] = "served"
    BY <1>4 DEF StartMint, MintFails, Challenged, Inv, TypeOK
  <2>2. UNCHANGED <<book, settled, target, req, chargedBy, price, phase>>
    BY <1>4 DEF StartMint, MintFails, Challenged
  <2> QED BY <2>1, <2>2, Inert
<1>5. ASSUME NEW r \in Requests, Deposit(r) PROVE Priced'
  <2> DEFINE p == target[r]
  <2>1. /\ p # NULL /\ p \in PIs /\ Hdr(r) \in Payment /\ price[p] = Hdr(r).value
        /\ (Hdr(r).to \in PIs => p = Hdr(r).to) /\ Hdr(r) # NULL
    BY <1>5, DistinctAssumption DEF Deposit, Inv, Placed, TargetPriced, TypeOK
  <2>2. CASE UNCHANGED <<phase, chargedBy, gate, answer>>
    BY <1>5, <2>2, Inert DEF Deposit
  <2>3. CASE /\ phase[p] = "open" /\ phase' = [phase EXCEPT ![p] = "paid"]
             /\ chargedBy' = [chargedBy EXCEPT ![p] = Hdr(r)]
             /\ Serve(r) \/ UNCHANGED <<gate, answer>>
    <3>1. UNCHANGED <<book, price, target, req>>
      BY <1>5, <2>3 DEF Deposit, Serve
    <3>2. \A q \in PIs : phase'[q] = "none" <=> phase[q] = "none"
      BY <2>3 DEF Inv, TypeOK
    <3>3. BookPriced'
      BY <3>1, <3>2, ChallengePI DEF Inv, BookPriced
    <3>4. TargetPriced'
      BY <3>1, <3>2 DEF Inv, TargetPriced, TypeOK, Hdr
    <3>5. ChargePriced'
      <4> SUFFICES ASSUME NEW q \in PIs
                   PROVE  /\ phase'[q] = "paid" => chargedBy'[q] # NULL
                          /\ phase'[q] = "none" => chargedBy'[q] = NULL
                          /\ chargedBy'[q] # NULL =>
                               /\ chargedBy'[q].value = price[q]
                               /\ chargedBy'[q].to \in PIs => q = chargedBy'[q].to
        BY <3>1 DEF ChargePriced
      <4>1. CASE q = p
        BY <2>1, <2>3, <4>1 DEF Inv, TypeOK
      <4>2. CASE q # p
        BY <2>3, <4>2 DEF Inv, ChargePriced, TypeOK
      <4> QED BY <4>1, <4>2
    <3>6. /\ chargedBy'[p] # NULL
          /\ \A q \in PIs : chargedBy[q] # NULL => chargedBy'[q] # NULL
      BY <2>1, <2>3 DEF Inv, TypeOK
    <3>7. \/ settled' = settled /\ answer' = answer
          \/ settled' = settled \cup {Hdr(r)} /\ answer' = [answer EXCEPT ![r] = "served"]
      BY <2>3 DEF Serve, SettledKey
    <3>8. ServedIsPaid' /\ SettledIsBacked'
      BY <2>1, <3>1, <3>6, <3>7, Served
    <3> QED BY <3>3, <3>4, <3>5, <3>8 DEF Priced
  <2> QED BY <1>5, <2>2, <2>3 DEF Deposit
<1>6. ASSUME NEW r \in Requests, Retrieve(r) PROVE Priced'
  <2>1. CASE UNCHANGED <<gate, answer>>
    BY <1>6, <2>1, Inert DEF Retrieve
  <2>2. CASE Succeeded(target[r]) /\ Serve(r)
    <3>1. UNCHANGED <<book, phase, price, chargedBy, target, req>>
      BY <1>6, <2>2 DEF Retrieve, Serve
    <3>2. target[r] # NULL /\ chargedBy[target[r]] # NULL
      BY <1>6, <2>2 DEF Retrieve, Succeeded, Inv, Placed, TypeOK, ChargePriced
    <3>3. settled' = settled \cup {Hdr(r)} /\ answer' = [answer EXCEPT ![r] = "served"]
      BY <2>2 DEF Serve, SettledKey
    <3>4. ServedIsPaid' /\ SettledIsBacked'
      BY <3>1, <3>2, <3>3, Served
    <3>5. BookPriced' /\ TargetPriced' /\ ChargePriced'
      BY <3>1 DEF Inv, BookPriced, TargetPriced, ChargePriced, Hdr
    <3> QED BY <3>4, <3>5 DEF Priced
  <2> QED BY <1>6, <2>1, <2>2 DEF Retrieve
<1>7. CASE Tick
  BY <1>7, Inert DEF Tick
<1>8. ASSUME NEW p \in PIs, Cancel(p) PROVE Priced'
  <2>1. \A q \in PIs : /\ phase'[q] = "none" <=> phase[q] = "none"
                       /\ phase'[q] = "paid" => phase[q] = "paid"
    BY <1>8 DEF Cancel, Inv, TypeOK
  <2> QED BY <1>8, <2>1, Inert DEF Cancel
<1>9. CASE Wipe
  <2>1. \A q \in PIs : /\ phase'[q] = "none" <=> phase[q] = "none"
                       /\ phase'[q] = "paid" => phase[q] = "paid"
    BY <1>9 DEF Wipe, Inv, TypeOK
  <2> QED BY <1>9, <2>1, Inert DEF Wipe
<1>10. CASE UNCHANGED vars
  BY <1>10, Inert DEF vars
<1> QED BY <1>1, <1>2, <1>3, <1>4, <1>5, <1>6, <1>7, <1>8, <1>9, <1>10 DEF Next, Progress

-----------------------------------------------------------------------------
(* Offers. *)

\* A challenge is never from the future, and while an offer of a minted address
\* lasts that address has a challenge that lasts at least as long.
Standing ==
  /\ \A a \in PayTos : book[a] # NULL => book[a].createdAt <= now
  /\ \A o \in offers : o.payTo \in PIs =>
       /\ phase[o.payTo] # "none" /\ price[o.payTo] = o.price
       /\ now <= o.until => /\ book[o.payTo] # NULL
                           /\ o.until <= book[o.payTo].createdAt + TTL

LEMMA ChallengeTime ==
  ASSUME TypeOK, NEW a \in PayTos, book[a] # NULL
  PROVE  book[a].createdAt \in Nat
<1>1. book[a] \in Challenge
  BY DEF TypeOK
<1> QED BY <1>1 DEF Challenge

LEMMA OfferTime ==
  ASSUME TypeOK, NEW o \in offers
  PROVE  o.until \in Nat /\ o.payTo \in PayTos
BY DEF TypeOK

\* A step that makes no offer and writes no challenge, and before which the clock
\* was no later.
LEMMA StandingKept ==
  ASSUME Inv, Standing, TypeOK', UNCHANGED <<offers, price, book>>, now <= now',
         \A p \in PIs : phase[p] # "none" => phase'[p] # "none"
  PROVE  Standing'
<1>1. now \in Nat /\ now' \in Nat
  BY BoundAssumption DEF Inv, TypeOK
<1>2. ASSUME NEW a \in PayTos, book'[a] # NULL PROVE book'[a].createdAt <= now'
  <2>1. book[a].createdAt \in Nat /\ book[a].createdAt <= now
    BY <1>2, ChallengeTime DEF Inv, Standing
  <2> QED BY <1>1, <2>1
<1>3. ASSUME NEW o \in offers, o.payTo \in PIs
      PROVE  /\ phase'[o.payTo] # "none" /\ price'[o.payTo] = o.price
             /\ now' <= o.until => /\ book'[o.payTo] # NULL
                                  /\ o.until <= book'[o.payTo].createdAt + TTL
  <2>1. o.until \in Nat /\ (now' <= o.until => now <= o.until)
    BY <1>1, OfferTime DEF Inv
  <2> QED BY <1>3, <2>1 DEF Standing
<1> QED BY <1>2, <1>3 DEF Standing

\* An entry is pushed: its challenge is stamped now, which is not before any
\* challenge it replaces.
LEMMA StandingOffered ==
  ASSUME Inv, Standing, NEW r \in Requests, NEW a \in PayTos, NEW p \in PIs,
         req[r] # NULL, EntryOf(r) \in Entry,
         Offer(r, a, p), a \in PIs => p = a, now' = now,
         phase'[p] # "none", price'[p] = EntryOf(r).price,
         \A q \in PIs : phase[q] # "none" => phase'[q] # "none" /\ price'[q] = price[q]
  PROVE  Standing'
<1> DEFINE new == [payTo |-> a, price |-> EntryOf(r).price, until |-> now + TTL]
<1>1. /\ \A b \in PayTos \ {a} : book'[b] = book[b]
      /\ book'[a].createdAt = now /\ book'[a] # NULL
  <2>1. book'[a] = [route |-> req[r].route, index |-> index[r], price |-> EntryOf(r).price,
                    pi |-> p, createdAt |-> now]
    BY DEF Offer, Inv, TypeOK
  <2>2. book'[a] \in Challenge
    BY <2>1, BoundAssumption DEF Inv, TypeOK, Challenge, Entry, Request
  <2> QED BY <2>1, <2>2, DistinctAssumption DEF Offer, Inv, TypeOK
<1>2. now \in Nat /\ TTL \in Nat
  BY BoundAssumption DEF Inv, TypeOK
<1>3. ASSUME NEW b \in PayTos, book'[b] # NULL PROVE book'[b].createdAt <= now'
  BY <1>1, <1>2, <1>3 DEF Standing
<1>4. ASSUME NEW o \in offers', o.payTo \in PIs
      PROVE  /\ phase'[o.payTo] # "none" /\ price'[o.payTo] = o.price
             /\ now' <= o.until => /\ book'[o.payTo] # NULL
                                  /\ o.until <= book'[o.payTo].createdAt + TTL
  <2>1. o \in offers \/ o = new
    BY DEF Offer
  <2>2. CASE o = new
    BY <1>1, <1>2, <1>4, <2>2
  <2>3. CASE o \in offers
    <3>1. /\ phase[o.payTo] # "none" /\ price[o.payTo] = o.price
          /\ now <= o.until => /\ book[o.payTo] # NULL
                              /\ o.until <= book[o.payTo].createdAt + TTL
          /\ o.until \in Nat /\ o.payTo \in PayTos
      BY <1>4, <2>3, OfferTime DEF Standing, Inv
    <3>2. CASE o.payTo = a
      <4>1. ASSUME now <= o.until PROVE o.until <= now + TTL
        <5>1. book[a] # NULL /\ o.until <= book[a].createdAt + TTL
          BY <3>1, <3>2, <4>1
        <5>2. book[a].createdAt \in Nat /\ book[a].createdAt <= now
          BY <5>1, ChallengeTime DEF Inv, Standing
        <5> QED BY <1>2, <3>1, <5>1, <5>2
      <4> QED BY <1>1, <1>4, <3>1, <3>2, <4>1
    <3>3. CASE o.payTo # a
      BY <1>1, <1>4, <3>1, <3>3
    <3> QED BY <3>2, <3>3
  <2> QED BY <2>1, <2>2, <2>3
<1> QED BY <1>3, <1>4 DEF Standing

LEMMA NextStanding == Inv /\ Inv' /\ Standing /\ [Next]_vars => Standing'
<1> SUFFICES ASSUME Inv, Inv', Standing, [Next]_vars PROVE Standing'
  OBVIOUS
<1> USE DEF At, Goto, Answer, twin, gate
<1>1. ASSUME NEW r \in Requests, NEW route \in Routes, NEW h \in Header,
             Arrive(r, route, h)
      PROVE Standing'
  <2>1. /\ UNCHANGED <<now, offers, phase, price>>
        /\ book' = book \/ (h.to \in PayTos /\ book' = Evict(h.to))
    BY <1>1 DEF Arrive, Payment
  <2>2. CASE book' = book
    BY <2>1, <2>2, StandingKept DEF Inv, TypeOK
  <2>3. CASE /\ h.to \in PayTos /\ Expired(book[h.to])
             /\ book' = [book EXCEPT ![h.to] = NULL]
    <3>1. /\ book[h.to] # NULL /\ now - book[h.to].createdAt > TTL
          /\ book[h.to].createdAt \in Nat /\ now \in Nat /\ TTL \in Nat
      <4>1. book[h.to] # NULL /\ now - book[h.to].createdAt > TTL
        BY <2>3 DEF Expired
      <4>2. book[h.to].createdAt \in Nat
        BY <2>3, <4>1, ChallengeTime DEF Inv
      <4> QED BY <4>1, <4>2, BoundAssumption DEF Inv, TypeOK
    <3>2. \A a \in PayTos : a # h.to => book'[a] = book[a]
      BY <2>3 DEF Inv, TypeOK
    <3>3. \A a \in PayTos : book'[a] # NULL => a # h.to
      BY <2>3 DEF Inv, TypeOK
    <3>4. ASSUME NEW o \in offers, o.payTo \in PIs, now <= o.until
          PROVE  o.payTo # h.to
      <4>1. o.until \in Nat /\ (o.payTo = h.to => o.until <= book[h.to].createdAt + TTL)
        BY <3>4, OfferTime DEF Inv, Standing
      <4> QED BY <3>1, <3>4, <4>1
    <3> QED BY <2>1, <3>2, <3>3, <3>4 DEF Standing
  <2> QED BY <2>1, <2>2, <2>3 DEF Evict
<1>2. ASSUME NEW r \in Requests, Reuse(r) PROVE Standing'
  <2>1. PICK a \in Reusable(r) : Offer(r, a, book[a].pi)
    BY <1>2 DEF Reuse
  <2>2. /\ a \in PIs /\ a \in PayTos /\ book[a] # NULL /\ book[a].price = EntryOf(r).price
        /\ book[a].pi \in PIs
    BY <2>1 DEF Reusable, Fresh, Inv, TypeOK, Challenge
  <2>3. /\ book[a].pi = a /\ phase[a] # "none" /\ price[a] = EntryOf(r).price
    BY <2>2 DEF Inv, BookPriced
  <2>4. UNCHANGED <<now, phase, price>> /\ req[r] # NULL /\ EntryOf(r) \in Entry
    BY <1>2, EntryType DEF Reuse, Inv, Placed
  <2> QED BY <2>1, <2>2, <2>3, <2>4, StandingOffered
<1>3. ASSUME NEW r \in Requests, Mint(r) PROVE Standing'
  <2>1. req[r] # NULL /\ EntryOf(r) \in Entry
    BY <1>3, EntryType DEF Mint, Inv, Placed
  <2>2. PICK p \in PIs :
          /\ phase[p] = "none"
          /\ phase' = [phase EXCEPT ![p] = "open"]
          /\ price' = [price EXCEPT ![p] = EntryOf(r).price]
          /\ Offer(r, PayTo(EntryOf(r), p), p)
    BY <1>3 DEF Mint
  <2> DEFINE a == PayTo(EntryOf(r), p)
  <2>3. a \in PayTos /\ (a \in PIs => p = a)
    BY <2>1, BoundAssumption, DistinctAssumption DEF PayTo, Entry
  <2>4. /\ now' = now /\ phase'[p] # "none" /\ price'[p] = EntryOf(r).price
        /\ \A q \in PIs : phase[q] # "none" => phase'[q] # "none" /\ price'[q] = price[q]
    BY <1>3, <2>2 DEF Mint, Inv, TypeOK
  <2> HIDE DEF a
  <2>5. Offer(r, a, p)
    BY <2>2 DEF a
  <2> QED BY <2>1, <2>3, <2>4, <2>5, StandingOffered
<1>4. CASE \/ \E r \in Requests : StartMint(r) \/ MintFails(r) \/ Challenged(r)
              \/ Deposit(r) \/ Retrieve(r)
           \/ Tick \/ Wipe \/ (\E p \in PIs : Cancel(p)) \/ UNCHANGED vars
  <2>1. UNCHANGED <<offers, price, book>>
    BY <1>4 DEF StartMint, MintFails, Challenged, Deposit, Retrieve, Serve, Tick, Wipe, Cancel, vars
  <2>2. now <= now'
    BY <1>4, BoundAssumption
    DEF StartMint, MintFails, Challenged, Deposit, Retrieve, Tick, Wipe, Cancel, vars, Inv, TypeOK
  <2>3. \A p \in PIs : phase[p] # "none" => phase'[p] # "none"
    BY <1>4 DEF StartMint, MintFails, Challenged, Deposit, Retrieve, Tick, Wipe, Cancel, vars,
                Inv, TypeOK
  <2> QED BY <2>1, <2>2, <2>3, StandingKept DEF Inv
<1> QED BY <1>1, <1>2, <1>3, <1>4 DEF Next, Progress

-----------------------------------------------------------------------------
(* The theorems. *)

LEMMA Invariant == Spec => []Inv
<1>1. Init => Inv
  <2> SUFFICES ASSUME Init PROVE Inv
    OBVIOUS
  <2>1. TypeOK
    BY InitType
  <2>2. Placed /\ BookPriced /\ TargetPriced /\ ChargePriced
    BY DEF Init, Placed, BookPriced, TargetPriced, ChargePriced, At
  <2>3. ServedIsPaid /\ SettledIsBacked
    BY DEF Init, ServedIsPaid, SettledIsBacked
  <2> QED BY <2>1, <2>2, <2>3 DEF Inv
<1>2. Inv /\ [Next]_vars => Inv'
  BY NextType, NextPlaced, NextPriced DEF Inv, Priced
<1> QED BY <1>1, <1>2, PTL DEF Spec

\* Every variable of the middleware keeps its type.
THEOREM TypeCorrect == Spec => []TypeOK
<1>1. Inv => TypeOK
  BY DEF Inv
<1> QED BY <1>1, Invariant, PTL

\* Whatever interleaves, fails or is rewritten, a request is let through for a
\* PaymentIntent that was charged, at the price its header authorized.
THEOREM ServedIsPaidAlways == Spec => []ServedIsPaid
<1>1. Inv => ServedIsPaid
  BY DEF Inv
<1> QED BY <1>1, Invariant, PTL

\* A PaymentIntent is only ever charged by a payment over its own price.
THEOREM ChargedAsPricedAlways == Spec => []ChargedAsPriced
<1>1. Inv => ChargedAsPriced
  BY DEF Inv, ChargePriced, ChargedAsPriced
<1> QED BY <1>1, Invariant, PTL

\* One header to a minted address charges that address's PaymentIntent or none.
THEOREM MintedChargedOnceAlways == Spec => []MintedChargedOnce
<1>1. Inv => MintedChargedOnce
  <2> SUFFICES ASSUME Inv, NEW h \in Payment, h.to \in PIs, NEW p \in Charged(h)
               PROVE  p = h.to
    BY DEF MintedChargedOnce
  <2>1. p \in PIs /\ chargedBy[p] = h /\ h # NULL
    BY DistinctAssumption DEF Charged, Payment
  <2> QED BY <2>1 DEF Inv, ChargePriced
<1> QED BY <1>1, Invariant, PTL

\* The shortcut for a header seen before is only open to a header that was paid.
THEOREM SettledIsBackedAlways == Spec => []SettledIsBacked
<1>1. Inv => SettledIsBacked
  BY DEF Inv
<1> QED BY <1>1, Invariant, PTL

\* The challenge of a minted address is still the one that was offered, for as
\* long as the offer says, whatever is evicted, reused and offered meanwhile.
THEOREM MintedOffersStandAlways == Spec => []MintedOffersStand
<1>1. Init => Standing
  BY DEF Init, Standing
<1>2. Inv /\ Standing => MintedOffersStand
  <2> SUFFICES ASSUME Inv, Standing, NEW o \in offers, o.payTo \in PIs, now <= o.until
               PROVE  /\ book[o.payTo] # NULL
                      /\ book[o.payTo].pi = o.payTo /\ book[o.payTo].price = o.price
    BY DEF MintedOffersStand
  <2>1. book[o.payTo] # NULL /\ price[o.payTo] = o.price /\ o.payTo \in PayTos
    BY DEF Standing
  <2> QED BY <2>1 DEF Inv, BookPriced
<1> QED BY <1>1, <1>2, Invariant, NextStanding, PTL DEF Spec

-----------------------------------------------------------------------------
(***************************************************************************)
(* The gate implements Paywall.  A deposit address is no part of the twin's *)
(* PaymentIntent in the model, so that the payment behind a receipt and the *)
(* payment a request shows could name different ones: a PaymentIntent is    *)
(* linked to an account by a challenge, by the header of a request that     *)
(* matched one or by its charge, and it is linked to one account only.      *)
(***************************************************************************)
Linked(p, a) ==
  \/ book[a] # NULL /\ book[a].pi = p
  \/ \E r \in Requests : target[r] = p /\ Hdr(r).to = a
  \/ chargedBy[p] # NULL /\ chargedBy[p].to = a

OneLink == \A p \in PIs : \A a, b \in PayTos : Linked(p, a) /\ Linked(p, b) => a = b

\* A header remembered as settled has a receipt.
Receipted(h) == \E p \in PIs : /\ chargedBy[p] # NULL
                               /\ chargedBy[p].to = h.to /\ chargedBy[p].value = h.value

Backed == \A h \in settled : Receipted(h)

\* Before its mint a PaymentIntent has no price, before its charge no payer.
Unpaid == \A p \in PIs : /\ phase[p] = "none" => price[p] = NULL
                         /\ phase[p] = "open" => chargedBy[p] = NULL

Wall == OneLink /\ Backed /\ Unpaid

LEMMA InitWall == Init => Wall
BY DistinctAssumption DEF Init, Wall, OneLink, Linked, Backed, Unpaid

LEMMA LinksKept ==
  ASSUME Wall, \A p \in PIs, a \in PayTos : Linked(p, a)' => Linked(p, a)
  PROVE  OneLink'
BY DEF Wall, OneLink

LEMMA ReceiptsKept ==
  ASSUME TypeOK, Wall, settled' = settled,
         \A p \in PIs : chargedBy[p] # NULL => chargedBy'[p] = chargedBy[p]
  PROVE  Backed'
<1> SUFFICES ASSUME NEW h \in settled PROVE Receipted(h)'
  BY DEF Backed
<1>1. PICK p \in PIs : /\ chargedBy[p] # NULL
                       /\ chargedBy[p].to = h.to /\ chargedBy[p].value = h.value
  BY DEF Wall, Backed, Receipted
<1> QED BY <1>1 DEF Receipted

\* A request whose PaymentIntent is charged shows a payment that has a receipt.
LEMMA ShownIsReceipted ==
  ASSUME Inv, Wall, NEW r \in Requests, target[r] # NULL, chargedBy[target[r]] # NULL
  PROVE  Receipted(Hdr(r))
<1> DEFINE p == target[r]
<1>1. /\ p \in PIs /\ Hdr(r) \in Payment /\ price[p] = Hdr(r).value
      /\ chargedBy[p] \in Payment /\ chargedBy[p].value = price[p]
  BY DEF Inv, TypeOK, TargetPriced, ChargePriced
<1>2. Linked(p, Hdr(r).to) /\ Linked(p, chargedBy[p].to)
  BY DEF Linked
<1>3. Hdr(r).to \in PayTos /\ chargedBy[p].to \in PayTos
  BY <1>1 DEF Payment
<1>4. chargedBy[p].to = Hdr(r).to
  BY <1>1, <1>2, <1>3 DEF Wall, OneLink
<1> QED BY <1>1, <1>4 DEF Receipted

LEMMA NextWall == Inv /\ Wall /\ [Next]_vars => Wall'
<1> SUFFICES ASSUME Inv, Wall, [Next]_vars PROVE Wall'
  OBVIOUS
<1> USE DEF At, Goto, Answer, twin, gate
<1>1. ASSUME NEW r \in Requests, NEW route \in Routes, NEW h \in Header,
             Arrive(r, route, h)
      PROVE Wall'
  <2>1. /\ target[r] = NULL /\ UNCHANGED <<phase, price, chargedBy, settled>>
        /\ req' = [req EXCEPT ![r] = [route |-> route, header |-> h]]
    BY <1>1 DEF Arrive, Inv, Placed
  <2>2. Hdr(r)' = h /\ \A q \in Requests \ {r} : Hdr(q)' = Hdr(q) /\ target'[q] = target[q]
    BY <1>1, <2>1 DEF Arrive, Hdr, Inv, TypeOK
  <2>3. \A a \in PayTos : book'[a] = book[a] \/ book'[a] = NULL
    <3>1. book' = book \/ \E a \in PayTos : book' = [book EXCEPT ![a] = NULL]
      BY <1>1 DEF Arrive, Evict, Payment
    <3> QED BY <3>1 DEF Inv, TypeOK
  <2>4. target'[r] # NULL =>
          h \in Payment /\ book[h.to] # NULL /\ target'[r] = book[h.to].pi
    BY <1>1, <2>1 DEF Arrive, Matches, Lookup, Inv, TypeOK
  <2>5. ASSUME NEW p \in PIs, NEW a \in PayTos, Linked(p, a)' PROVE Linked(p, a)
    <3>1. CASE book'[a] # NULL /\ book'[a].pi = p
      <4>1. book'[a] = book[a]
        BY <2>3, <3>1
      <4> QED BY <3>1, <4>1 DEF Linked
    <3>2. CASE chargedBy'[p] # NULL /\ chargedBy'[p].to = a
      BY <2>1, <3>2 DEF Linked
    <3>3. ASSUME NEW q \in Requests, target'[q] = p, Hdr(q)'.to = a PROVE Linked(p, a)
      <4>1. CASE q = r
        <5>1. p # NULL
          BY DistinctAssumption
        <5> QED BY <2>2, <2>4, <3>3, <4>1, <5>1 DEF Linked
      <4>2. CASE q # r
        BY <2>2, <3>3, <4>2 DEF Linked
      <4> QED BY <4>1, <4>2
    <3> QED BY <2>5, <3>1, <3>2, <3>3 DEF Linked
  <2> QED BY <2>1, <2>5, LinksKept, ReceiptsKept DEF Inv, Wall, Unpaid
<1>2. ASSUME NEW r \in Requests, Reuse(r) PROVE Wall'
  <2>1. PICK a \in Reusable(r) : Offer(r, a, book[a].pi)
    BY <1>2 DEF Reuse
  <2>2. a \in PayTos /\ book[a] # NULL
    BY <2>1 DEF Reusable, Fresh
  <2>3. UNCHANGED <<phase, price, settled, target, req, chargedBy>>
    BY <1>2 DEF Reuse
  <2>4. book'[a].pi = book[a].pi /\ \A b \in PayTos \ {a} : book'[b] = book[b]
    BY <2>1, <2>2 DEF Offer, Inv, TypeOK
  <2>5. ASSUME NEW p \in PIs, NEW b \in PayTos, Linked(p, b)' PROVE Linked(p, b)
    BY <2>2, <2>3, <2>4, <2>5 DEF Linked, Hdr
  <2> QED BY <2>3, <2>5, LinksKept, ReceiptsKept DEF Inv, Wall, Unpaid
<1>3. ASSUME NEW r \in Requests, Mint(r) PROVE Wall'
  <2>1. req[r] # NULL /\ EntryOf(r) \in Entry
    BY <1>3, EntryType DEF Mint, Inv, Placed
  <2>2. PICK p \in PIs :
          /\ phase[p] = "none"
          /\ phase' = [phase EXCEPT ![p] = "open"]
          /\ price' = [price EXCEPT ![p] = EntryOf(r).price]
          /\ Offer(r, PayTo(EntryOf(r), p), p)
    BY <1>3 DEF Mint
  <2>3. PICK a \in PayTos : a = PayTo(EntryOf(r), p)
    BY <2>1 DEF PayTo, Entry
  <2>4. UNCHANGED <<settled, target, req, chargedBy>>
    BY <1>3 DEF Mint
  <2>5. /\ book'[a].pi = p /\ \A b \in PayTos \ {a} : book'[b] = book[b]
    BY <2>2, <2>3 DEF Offer, Inv, TypeOK
  <2>6. ASSUME NEW b \in PayTos PROVE ~Linked(p, b)
    <3>1. p # NULL
      BY DistinctAssumption
    <3>2. chargedBy[p] = NULL /\ ~(book[b] # NULL /\ book[b].pi = p)
      BY <2>2 DEF Inv, ChargePriced, BookPriced
    <3>3. \A q \in Requests : target[q] # p
      BY <2>2, <3>1 DEF Inv, TargetPriced
    <3> QED BY <3>2, <3>3 DEF Linked
  <2>7. ASSUME NEW q \in PIs, NEW b \in PayTos, Linked(q, b)' PROVE (q = p /\ b = a) \/ Linked(q, b)
    <3>1. CASE book'[b] # NULL /\ book'[b].pi = q
      BY <2>5, <3>1 DEF Linked
    <3>2. CASE ~(book'[b] # NULL /\ book'[b].pi = q)
      BY <2>4, <2>7, <3>2 DEF Linked, Hdr
    <3> QED BY <3>1, <3>2
  <2>8. OneLink'
    <3> SUFFICES ASSUME NEW q \in PIs, NEW b \in PayTos, NEW c \in PayTos,
                        Linked(q, b)', Linked(q, c)'
                 PROVE  b = c
      BY DEF OneLink
    <3>1. CASE q = p
      BY <2>6, <2>7, <3>1
    <3>2. CASE q # p
      BY <2>7, <3>2 DEF Wall, OneLink
    <3> QED BY <3>1, <3>2
  <2>9. Unpaid'
    BY <2>2, <2>4 DEF Wall, Unpaid, Inv, TypeOK, ChargePriced
  <2> QED BY <2>4, <2>8, <2>9, ReceiptsKept DEF Inv, Wall
<1>4. ASSUME NEW r \in Requests, Deposit(r) PROVE Wall'
  <2>1. PICK p \in PIs : p = target[r]
    BY <1>4 DEF Deposit, Inv, Placed, TypeOK
  <2>2. UNCHANGED <<book, price, target, req>>
    BY <1>4 DEF Deposit, Serve
  <2>3. CASE UNCHANGED <<phase, chargedBy, settled>>
    <3>1. \A q \in PIs, a \in PayTos : Linked(q, a)' => Linked(q, a)
      BY <2>2, <2>3 DEF Linked, Hdr
    <3> QED BY <2>2, <2>3, <3>1, LinksKept, ReceiptsKept DEF Inv, Wall, Unpaid
  <2>4. CASE /\ phase[p] = "open" /\ phase' = [phase EXCEPT ![p] = "paid"]
             /\ chargedBy' = [chargedBy EXCEPT ![p] = Hdr(r)]
             /\ settled' \in {settled, settled \cup {Hdr(r)}}
    <3>1. /\ chargedBy'[p] = Hdr(r) /\ Hdr(r) \in Payment /\ Hdr(r) # NULL
          /\ chargedBy[p] = NULL
          /\ \A q \in PIs \ {p} : chargedBy'[q] = chargedBy[q]
      BY <2>1, <2>4, DistinctAssumption DEF Inv, TypeOK, TargetPriced, Wall, Unpaid
    <3>2. ASSUME NEW q \in PIs, NEW a \in PayTos, Linked(q, a)' PROVE Linked(q, a)
      <4>1. CASE chargedBy'[q] # NULL /\ chargedBy'[q].to = a
        BY <2>1, <3>1, <4>1 DEF Linked
      <4>2. CASE ~(chargedBy'[q] # NULL /\ chargedBy'[q].to = a)
        BY <2>2, <3>2, <4>2 DEF Linked, Hdr
      <4> QED BY <4>1, <4>2
    <3>3. Backed'
      <4>1. Receipted(Hdr(r))'
        <5>1. Hdr(r)' = Hdr(r)
          BY <2>2 DEF Hdr
        <5> QED BY <3>1, <5>1 DEF Receipted
      <4>2. ASSUME NEW h \in settled PROVE Receipted(h)'
        BY <3>1 DEF Wall, Backed, Receipted
      <4>3. Hdr(r)' = Hdr(r)
        BY <2>2 DEF Hdr
      <4>4. ASSUME NEW h \in settled' PROVE Receipted(h)'
        BY <2>4, <4>1, <4>2, <4>3, <4>4 DEF Receipted
      <4> QED BY <4>4 DEF Backed
    <3>4. Unpaid'
      BY <2>2, <2>4, <3>1 DEF Wall, Unpaid, Inv, TypeOK
    <3> QED BY <3>2, <3>3, <3>4, LinksKept DEF Wall
  <2>5. \/ UNCHANGED <<phase, chargedBy, settled>>
        \/ /\ phase[p] = "open" /\ phase' = [phase EXCEPT ![p] = "paid"]
           /\ chargedBy' = [chargedBy EXCEPT ![p] = Hdr(r)]
           /\ settled' \in {settled, settled \cup {Hdr(r)}}
    BY <1>4, <2>1 DEF Deposit, Serve, SettledKey
  <2> QED BY <2>3, <2>4, <2>5
<1>5. ASSUME NEW r \in Requests, Retrieve(r) PROVE Wall'
  <2>1. UNCHANGED <<book, phase, price, chargedBy, target, req>>
    BY <1>5 DEF Retrieve, Serve
  <2>2. \A q \in PIs, a \in PayTos : Linked(q, a)' => Linked(q, a)
    BY <2>1 DEF Linked, Hdr
  <2>3. Backed'
    <3>1. CASE settled' = settled
      BY <2>1, <3>1, ReceiptsKept DEF Inv
    <3>2. CASE Succeeded(target[r]) /\ Serve(r)
      <4>1. Receipted(Hdr(r))
        BY <1>5, <3>2, ShownIsReceipted
        DEF Retrieve, Succeeded, Inv, Placed, TypeOK, ChargePriced
      <4>2. settled' = settled \cup {Hdr(r)}
        BY <3>2 DEF Serve, SettledKey
      <4>3. \A h \in settled' : Receipted(h)
        BY <4>1, <4>2 DEF Wall, Backed
      <4> QED BY <2>1, <4>3 DEF Backed, Receipted
    <3> QED BY <1>5, <3>1, <3>2 DEF Retrieve
  <2> QED BY <2>1, <2>2, <2>3, LinksKept DEF Wall, Unpaid
<1>6. CASE \/ \E r \in Requests : StartMint(r) \/ MintFails(r) \/ Challenged(r)
           \/ Tick \/ Wipe \/ (\E p \in PIs : Cancel(p)) \/ UNCHANGED vars
  <2>1. UNCHANGED <<book, price, chargedBy, settled, target, req>>
    BY <1>6 DEF StartMint, MintFails, Challenged, Tick, Wipe, Cancel, vars
  <2>2. \A p \in PIs : /\ phase'[p] = "none" => phase[p] = "none"
                       /\ phase'[p] = "open" => phase[p] = "open"
    BY <1>6 DEF StartMint, MintFails, Challenged, Tick, Wipe, Cancel, vars, Inv, TypeOK
  <2>3. \A q \in PIs, a \in PayTos : Linked(q, a)' => Linked(q, a)
    BY <2>1 DEF Linked, Hdr
  <2> QED BY <2>1, <2>2, <2>3, LinksKept, ReceiptsKept DEF Inv, Wall, Unpaid
<1> QED BY <1>1, <1>2, <1>3, <1>4, <1>5, <1>6 DEF Next, Progress

\* The payment a request was let in with.
Shown(r) == IF answer[r] = "served" THEN Hdr(r) ELSE NULL

LEMMA WallStill ==
  ASSUME UNCHANGED <<price, chargedBy>>, \A r \in Requests : Shown(r)' = Shown(r)
  PROVE  UNCHANGED W!pvars
BY DEF W!pvars, Shown

LEMMA LetInMaps ==
  ASSUME NEW r \in Requests, NEW h \in Payment,
         answer[r] # "served", answer'[r] = "served", Hdr(r)' = h, Receipted(h)',
         \A q \in Requests \ {r} : Shown(q)' = Shown(q), price' = price
  PROVE  W!LetIn(r, h)
<1>1. Shown(r) = NULL /\ Shown(r)' = h
  BY DEF Shown
<1>2. W!Receipt(h)
  BY DEF W!Receipt, Receipted
<1>3. [q \in Requests |-> Shown(q)'] = [[q \in Requests |-> Shown(q)] EXCEPT ![r] = h]
  BY <1>1
<1>4. [q \in Requests |-> Shown(q)]' = [[q \in Requests |-> Shown(q)] EXCEPT ![r] = h]
  BY <1>3
<1> QED BY <1>1, <1>2, <1>4 DEF W!LetIn, Shown

\* Every step of the gate is one of the paywall or none.
LEMMA StepCollects ==
  ASSUME Inv, Wall, [Next]_vars
  PROVE  W!Next \/ UNCHANGED W!pvars
<1> USE DEF At, Goto, Answer, twin, gate
<1>1. ASSUME NEW r \in Requests, NEW route \in Routes, NEW h \in Header,
             Arrive(r, route, h)
      PROVE W!Next \/ UNCHANGED W!pvars
  <2>1. /\ answer[r] = "none" /\ UNCHANGED <<price, chargedBy>> /\ Hdr(r)' = h
        /\ \A q \in Requests \ {r} : answer'[q] = answer[q] /\ Hdr(q)' = Hdr(q)
        /\ answer'[r] = "none" \/ (answer'[r] = "served" /\ h \in settled)
    BY <1>1 DEF Arrive, Hdr, Inv, Placed, TypeOK
  <2>2. \A q \in Requests \ {r} : Shown(q)' = Shown(q)
    BY <2>1 DEF Shown
  <2>3. CASE answer'[r] = "none"
    <3>1. Shown(r)' = Shown(r)
      BY <2>1, <2>3 DEF Shown
    <3> QED BY <2>1, <2>2, <3>1, WallStill
  <2>4. CASE answer'[r] = "served" /\ h \in settled
    <3>1. h \in Payment /\ Receipted(h)'
      BY <2>1, <2>4 DEF Inv, TypeOK, Wall, Backed, Receipted
    <3>2. W!LetIn(r, h)
      BY <2>1, <2>2, <2>4, <3>1, LetInMaps
    <3> QED BY <2>1, <3>1, <3>2 DEF W!Next, Payment
  <2> QED BY <2>1, <2>3, <2>4
<1>2. ASSUME NEW r \in Requests, Mint(r) PROVE W!Next \/ UNCHANGED W!pvars
  <2>1. req[r] # NULL /\ EntryOf(r) \in Entry
    BY <1>2, EntryType DEF Mint, Inv, Placed
  <2>2. PICK p \in PIs : phase[p] = "none" /\ price' = [price EXCEPT ![p] = EntryOf(r).price]
    BY <1>2 DEF Mint
  <2>3. UNCHANGED <<chargedBy, answer, req>> /\ price[p] = NULL /\ EntryOf(r).price \in Prices
    BY <1>2, <2>1, <2>2 DEF Mint, Wall, Unpaid, Entry
  <2>4. W!Issue(p, EntryOf(r).price)
    BY <2>2, <2>3 DEF W!Issue, Hdr
  <2> QED BY <2>3, <2>4 DEF W!Next
<1>3. ASSUME NEW r \in Requests, Deposit(r) PROVE W!Next \/ UNCHANGED W!pvars
  <2>1. PICK p \in PIs : p = target[r] /\ p # NULL
    BY <1>3 DEF Deposit, Inv, Placed, TypeOK
  <2>2. PICK h \in Payment : h = Hdr(r)
    BY <2>1 DEF Inv, TargetPriced
  <2>3. /\ UNCHANGED <<price, req>> /\ Hdr(r)' = h /\ answer[r] = "none"
        /\ \A q \in Requests : Hdr(q)' = Hdr(q)
    BY <1>3, <2>2 DEF Deposit, Hdr, Inv, Placed, TypeOK
  <2>4. CASE UNCHANGED <<chargedBy, answer>>
    BY <2>3, <2>4, WallStill DEF Shown
  <2>5. CASE /\ phase[p] = "open" /\ chargedBy' = [chargedBy EXCEPT ![p] = h]
             /\ answer' = answer \/ answer' = [answer EXCEPT ![r] = "served"]
    <3>1. W!Pay(p, h)
      <4>1. /\ price[p] = h.value /\ chargedBy[p] = NULL
            /\ h.to \in PIs => h.to = p
        BY <2>1, <2>2, <2>5 DEF Inv, TargetPriced, Wall, Unpaid
      <4> QED BY <2>3, <2>5, <4>1 DEF W!Pay
    <3>2. CASE answer' = answer
      <4>1. \A q \in Requests : Shown(q)' = Shown(q)
        BY <2>3, <3>2 DEF Shown
      <4> QED BY <3>1, <4>1 DEF W!Next, Shown
    <3>3. CASE answer' = [answer EXCEPT ![r] = "served"]
      <4>1. /\ answer'[r] = "served"
            /\ \A q \in Requests \ {r} : Shown(q)' = Shown(q)
        BY <2>3, <3>3 DEF Shown, Inv, TypeOK
      <4>2. chargedBy'[p] = h /\ h # NULL
        BY <2>5, DistinctAssumption DEF Inv, TypeOK
      <4>3. Receipted(h)'
        BY <4>2 DEF Receipted
      <4>4. W!LetIn(r, h)
        BY <2>3, <4>1, <4>3, LetInMaps
      <4> QED BY <3>1, <4>4 DEF W!Next
    <3> QED BY <2>5, <3>2, <3>3
  <2> QED BY <1>3, <2>1, <2>2, <2>4, <2>5 DEF Deposit, Serve
<1>4. ASSUME NEW r \in Requests, Retrieve(r) PROVE W!Next \/ UNCHANGED W!pvars
  <2>1. /\ UNCHANGED <<price, chargedBy, req, target>> /\ answer[r] = "none" /\ Hdr(r)' = Hdr(r)
        /\ \A q \in Requests : Hdr(q)' = Hdr(q)
    BY <1>4 DEF Retrieve, Hdr, Inv, Placed, TypeOK
  <2>2. CASE answer' = answer
    BY <2>1, <2>2, WallStill DEF Shown
  <2>3. CASE Succeeded(target[r]) /\ answer' = [answer EXCEPT ![r] = "served"]
    <3>1. target[r] # NULL /\ chargedBy[target[r]] # NULL
      BY <1>4, <2>3 DEF Retrieve, Succeeded, Inv, Placed, TypeOK, ChargePriced
    <3>2. PICK h \in Payment : h = Hdr(r)
      BY <3>1 DEF Inv, TargetPriced
    <3>3. Receipted(h)
      BY <3>1, <3>2, ShownIsReceipted
    <3>4. Receipted(h)'
      BY <2>1, <3>3 DEF Receipted
    <3>5. /\ answer'[r] = "served"
          /\ \A q \in Requests \ {r} : Shown(q)' = Shown(q)
      BY <2>1, <2>3 DEF Shown, Inv, TypeOK
    <3>6. W!LetIn(r, h)
      BY <2>1, <3>2, <3>4, <3>5, LetInMaps
    <3> QED BY <2>1, <3>6 DEF W!Next
  <2> QED BY <1>4, <2>2, <2>3 DEF Retrieve, Serve
<1>5. CASE \/ \E r \in Requests : Reuse(r) \/ StartMint(r) \/ MintFails(r) \/ Challenged(r)
           \/ Tick \/ Wipe \/ (\E p \in PIs : Cancel(p)) \/ UNCHANGED vars
  <2>1. UNCHANGED <<price, chargedBy, req>>
    BY <1>5 DEF Reuse, StartMint, MintFails, Challenged, Tick, Wipe, Cancel, vars
  <2>2. \A q \in Requests : answer'[q] = "served" <=> answer[q] = "served"
    BY <1>5 DEF Reuse, StartMint, MintFails, Challenged, Tick, Wipe, Cancel, vars, Inv,
                Placed, TypeOK
  <2> QED BY <2>1, <2>2, WallStill DEF Shown, Hdr
<1> QED BY <1>1, <1>2, <1>3, <1>4, <1>5 DEF Next, Progress

\* For any routes, addresses, prices and requests the gate is a paywall: each of
\* its steps issues a bill, collects one, lets one guest in against a receipt for
\* what it shows, or changes nothing of this.
THEOREM CollectsAlways == Spec => Collects
<1>1. Init => W!Init
  BY DEF Init, W!Init
<1>2. Inv /\ Wall /\ [Next]_vars => [W!pvars' # W!pvars /\ W!Next]_(W!pvars)
  BY StepCollects
<1> QED BY <1>1, <1>2, Invariant, InitWall, NextWall, PTL DEF Spec, Collects, W!Spec

-----------------------------------------------------------------------------
(***************************************************************************)
(* What is left of "MUST NOT mint a second charge" at an explicit address, *)
(* where ChargedOnce fails: a header is charged at most once per request   *)
(* that sends it, and no more once it was served and nothing is under way. *)
(***************************************************************************)

\* Every charge is of a request of its own: the one it was matched for.
ChargeIsAsked ==
  \A p \in PIs : chargedBy[p] # NULL =>
    \E r \in Requests : target[r] = p /\ Hdr(r) = chargedBy[p]

\* No request with this header is on its way to a deposit.
Quiet(h) == \A r \in Requests : At(r, "settling") => Hdr(r) # h

\* A header that was settled and has no request under way stays so, and is not
\* charged again however often it is sent.
SettledIsFinal ==
  [][\A h \in settled : Quiet(h) =>
       Quiet(h)' /\ h \in settled' /\ Charged(h)' = Charged(h)]_vars

LEMMA AskedKept ==
  ASSUME ChargeIsAsked,
         \A p \in PIs : chargedBy'[p] = chargedBy[p],
         \A r \in Requests : target[r] # NULL => target'[r] = target[r] /\ Hdr(r)' = Hdr(r)
  PROVE  ChargeIsAsked'
<1> SUFFICES ASSUME NEW p \in PIs, chargedBy'[p] # NULL
             PROVE  \E r \in Requests : target'[r] = p /\ Hdr(r)' = chargedBy'[p]
  BY DEF ChargeIsAsked
<1>1. PICK r \in Requests : target[r] = p /\ Hdr(r) = chargedBy[p]
  BY DEF ChargeIsAsked
<1>2. p # NULL
  BY DistinctAssumption
<1> QED BY <1>1, <1>2

LEMMA NextAsked == Inv /\ ChargeIsAsked /\ [Next]_vars => ChargeIsAsked'
<1> SUFFICES ASSUME Inv, ChargeIsAsked, [Next]_vars PROVE ChargeIsAsked'
  OBVIOUS
<1> USE DEF At, Goto, Answer, twin, gate
<1>1. ASSUME NEW r \in Requests, NEW route \in Routes, NEW h \in Header,
             Arrive(r, route, h)
      PROVE ChargeIsAsked'
  <2>1. /\ target[r] = NULL /\ chargedBy' = chargedBy
        /\ \A q \in Requests \ {r} : Hdr(q)' = Hdr(q) /\ target'[q] = target[q]
    BY <1>1 DEF Arrive, Hdr, Inv, Placed, TypeOK
  <2> QED BY <2>1, AskedKept
<1>2. ASSUME NEW r \in Requests, Deposit(r) PROVE ChargeIsAsked'
  <2>1. PICK p \in PIs : p = target[r]
    BY <1>2 DEF Deposit, Inv, Placed, TypeOK
  <2>2. /\ target' = target /\ \A q \in Requests : Hdr(q)' = Hdr(q)
        /\ chargedBy' \in {chargedBy, [chargedBy EXCEPT ![p] = Hdr(r)]}
    BY <1>2, <2>1 DEF Deposit, Hdr
  <2>3. CASE chargedBy' = chargedBy
    BY <2>2, <2>3, AskedKept
  <2>4. CASE chargedBy' = [chargedBy EXCEPT ![p] = Hdr(r)]
    <3> SUFFICES ASSUME NEW q \in PIs, chargedBy'[q] # NULL
                 PROVE  \E s \in Requests : target'[s] = q /\ Hdr(s)' = chargedBy'[q]
      BY DEF ChargeIsAsked
    <3>1. CASE q = p
      BY <2>1, <2>2, <2>4, <3>1 DEF Inv, TypeOK
    <3>2. CASE q # p
      BY <2>2, <2>4, <3>2 DEF ChargeIsAsked, Inv, TypeOK
    <3> QED BY <3>1, <3>2
  <2> QED BY <2>2, <2>3, <2>4
<1>3. CASE \/ \E r \in Requests : \/ Reuse(r) \/ StartMint(r) \/ Mint(r) \/ MintFails(r)
                                  \/ Challenged(r) \/ Retrieve(r)
           \/ Tick \/ Wipe \/ (\E p \in PIs : Cancel(p)) \/ UNCHANGED vars
  <2>1. UNCHANGED <<target, req, chargedBy>>
    BY <1>3 DEF Reuse, StartMint, Mint, MintFails, Challenged, Retrieve, Tick, Wipe, Cancel, vars
  <2> QED BY <2>1, AskedKept DEF Hdr
<1> QED BY <1>1, <1>2, <1>3 DEF Next, Progress

\* A header that was sent n times is charged at most n times, wherever it is sent:
\* each charge is of another PaymentIntent and has a request that matched it.
THEOREM ChargeIsAskedAlways == Spec => []ChargeIsAsked
<1>1. Init => ChargeIsAsked
  BY DEF Init, ChargeIsAsked
<1> QED BY <1>1, Invariant, NextAsked, PTL DEF Spec

\* A retry after the settlement was answered never charges, at explicit addresses
\* too: only a retry of a lost answer, or a second send beside the first, does.
THEOREM SettledIsFinalAlways == Spec => SettledIsFinal
<1>1. ASSUME Inv, Wall, [Next]_vars, NEW h \in settled, Quiet(h)
      PROVE  Quiet(h)' /\ h \in settled' /\ Charged(h)' = Charged(h)
  <2> USE DEF At, Goto, Answer, twin, gate
  <2>1. ASSUME NEW r \in Requests, NEW route \in Routes, NEW g \in Header,
               Arrive(r, route, g)
        PROVE  Quiet(h)' /\ h \in settled' /\ Charged(h)' = Charged(h)
    <3>1. /\ UNCHANGED <<settled, chargedBy>> /\ Hdr(r)' = g
          /\ \A q \in Requests \ {r} : Hdr(q)' = Hdr(q) /\ pc'[q] = pc[q]
      BY <1>1, <2>1 DEF Arrive, Hdr, Inv, TypeOK
    <3>2. pc'[r] = "settling" => g \notin settled
      BY <1>1, <2>1 DEF Arrive, Inv, TypeOK
    <3>3. ASSUME NEW q \in Requests, pc'[q] = "settling" PROVE Hdr(q)' # h
      <4>1. CASE q = r
        BY <1>1, <3>1, <3>2, <3>3, <4>1
      <4>2. CASE q # r
        BY <1>1, <3>1, <3>3, <4>2 DEF Quiet
      <4> QED BY <4>1, <4>2
    <3> QED BY <1>1, <3>1, <3>3 DEF Charged, Quiet
  <2>2. ASSUME NEW r \in Requests, Deposit(r)
        PROVE  Quiet(h)' /\ h \in settled' /\ Charged(h)' = Charged(h)
    <3>1. PICK p \in PIs : p = target[r]
      BY <1>1, <2>2 DEF Deposit, Inv, Placed, TypeOK
    <3>2. /\ Hdr(r) # h /\ \A q \in Requests : Hdr(q)' = Hdr(q)
          /\ settled \subseteq settled'
      BY <1>1, <2>2 DEF Deposit, Serve, Quiet, Hdr
    <3>3. \A q \in Requests : pc'[q] = "settling" => pc[q] = "settling"
      BY <1>1, <2>2 DEF Deposit, Serve, Inv, TypeOK
    <3>4. \/ chargedBy' = chargedBy
          \/ phase[p] = "open" /\ chargedBy' = [chargedBy EXCEPT ![p] = Hdr(r)]
      BY <1>1, <2>2, <3>1 DEF Deposit
    <3>5. Quiet(h)' /\ h \in settled'
      BY <1>1, <3>2, <3>3 DEF Quiet
    <3>6. ASSUME NEW q \in PIs PROVE chargedBy'[q] = h <=> chargedBy[q] = h
      <4>1. h # NULL
        BY <1>1, DistinctAssumption DEF Inv, TypeOK
      <4>2. phase[p] = "open" => chargedBy[p] = NULL
        BY <1>1 DEF Wall, Unpaid
      <4> QED BY <1>1, <3>2, <3>4, <4>1, <4>2 DEF Inv, TypeOK
    <3> QED BY <1>1, <3>5, <3>6 DEF Charged
  <2>3. ASSUME NEW r \in Requests, Retrieve(r)
        PROVE  Quiet(h)' /\ h \in settled' /\ Charged(h)' = Charged(h)
    <3>1. /\ UNCHANGED <<chargedBy, req>> /\ settled \subseteq settled'
          /\ \A q \in Requests : pc'[q] = "settling" => pc[q] = "settling"
      BY <1>1, <2>3 DEF Retrieve, Serve, Inv, TypeOK
    <3> QED BY <1>1, <3>1 DEF Quiet, Hdr, Charged
  <2>4. CASE \/ \E r \in Requests : Reuse(r) \/ StartMint(r) \/ Mint(r) \/ MintFails(r)
                                    \/ Challenged(r)
             \/ Tick \/ Wipe \/ (\E p \in PIs : Cancel(p)) \/ UNCHANGED vars
    <3>1. UNCHANGED <<chargedBy, req, settled>>
      BY <1>1, <2>4 DEF Reuse, StartMint, Mint, MintFails, Challenged, Tick, Wipe, Cancel, vars, Offer
    <3>2. \A q \in Requests : pc'[q] = "settling" => pc[q] = "settling"
      BY <1>1, <2>4 DEF Reuse, StartMint, Mint, MintFails, Challenged, Tick, Wipe, Cancel, vars,
                       Inv, TypeOK
    <3> QED BY <1>1, <3>1, <3>2 DEF Quiet, Hdr, Charged
  <2> QED BY <1>1, <2>1, <2>2, <2>3, <2>4 DEF Next, Progress
<1>2. Inv /\ Wall /\ [Next]_vars =>
        [\A h \in settled : Quiet(h) =>
           Quiet(h)' /\ h \in settled' /\ Charged(h)' = Charged(h)]_vars
  BY <1>1
<1> QED BY <1>2, Invariant, InitWall, NextWall, PTL DEF Spec, SettledIsFinal
=============================================================================
