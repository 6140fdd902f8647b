---------------------------- MODULE FileDelivery ----------------------------
(***************************************************************************)
(* What sending files promises the two users, apart from chunks, frames    *)
(* and the machines that exchange them: nobody is asked about files the    *)
(* other end did not offer, nothing is delivered that was not accepted,    *)
(* and what was accepted is delivered in its order, each file at most once *)
(* while the connection is open.  Transfer implements it.                  *)
(***************************************************************************)
EXTENDS Sequences

CONSTANTS
  Peer,      \* the two ends
  Manifest,  \* lists of files an end may offer
  Auto       \* the ends that accept without asking

VARIABLES
  open,      \* the two ends are connected
  offers,    \* the manifests on their way to each end
  asked,     \* the manifest the user of an end is asked about; <<>>: none
  contract,  \* what each end accepted and still expects
  delivered  \* the files in the download directory of each end

vars == <<open, offers, asked, contract, delivered>>

Init ==
  /\ open = TRUE
  /\ offers = [p \in Peer |-> {}]
  /\ asked = [p \in Peer |-> <<>>]
  /\ contract = [p \in Peer |-> <<>>]
  /\ delivered = [p \in Peer |-> <<>>]

\* An offer may be refused or lost at any moment.
OffersMayGo == \A p \in Peer : offers'[p] \subseteq offers[p]

\* The user of the end other than p offers files.
Offer(p) ==
  /\ offers'[p] \ offers[p] \subseteq Manifest
  /\ \A q \in Peer \ {p} : offers'[q] \subseteq offers[q]
  /\ UNCHANGED <<open, asked, contract, delivered>>

\* The user is asked about one offer at a time and never during a batch.
Ask(p) ==
  /\ asked[p] = <<>> /\ contract[p] = <<>>
  /\ \E manifest \in offers[p] : asked' = [asked EXCEPT ![p] = manifest]
  /\ OffersMayGo
  /\ UNCHANGED <<open, contract, delivered>>

\* What is accepted is what was asked, or an offer where nobody is asked.
Accept(p) ==
  /\ contract[p] = <<>>
  /\ \/ /\ asked[p] # <<>>
        /\ contract' = [contract EXCEPT ![p] = asked[p]]
     \/ /\ p \in Auto /\ asked[p] = <<>>
        /\ \E manifest \in offers[p] : contract' = [contract EXCEPT ![p] = manifest]
  /\ asked' = [asked EXCEPT ![p] = <<>>]
  /\ OffersMayGo
  /\ UNCHANGED <<open, delivered>>

\* A file is delivered when its turn comes.  After the connection is lost the end may
\* fail to confirm it and then keeps it on its list until it gives the batch up.
Deliver(p) ==
  /\ contract[p] # <<>>
  /\ delivered' = [delivered EXCEPT ![p] = Append(@, Head(contract[p]))]
  /\ \/ contract' = [contract EXCEPT ![p] = Tail(@)]
     \/ ~open /\ UNCHANGED contract
  /\ OffersMayGo
  /\ UNCHANGED <<open, asked>>

\* The user declines, or the end gives the batch up.
GiveUp(p) ==
  /\ asked' = [asked EXCEPT ![p] = <<>>]
  /\ contract' = [contract EXCEPT ![p] = <<>>] \/ UNCHANGED contract
  /\ OffersMayGo
  /\ UNCHANGED <<open, delivered>>

Lose ==
  /\ open /\ open' = FALSE
  /\ OffersMayGo
  /\ UNCHANGED <<asked, contract, delivered>>

\* The ends meet again: nothing of the lost connection is left.
Reconnect ==
  /\ ~open /\ open' = TRUE
  /\ offers' = [p \in Peer |-> {}]
  /\ asked' = [p \in Peer |-> <<>>]
  /\ contract' = [p \in Peer |-> <<>>]
  /\ UNCHANGED delivered

Next ==
  \/ \E p \in Peer : \/ Offer(p) \/ Ask(p) \/ Accept(p) \/ Deliver(p) \/ GiveUp(p)
  \/ Lose
  \/ Reconnect

Spec == Init /\ [][Next]_vars
=============================================================================
