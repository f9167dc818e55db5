------------------------------ MODULE ElementPool ------------------------------
(***************************************************************************)
(* What an allocator promises its clients, free of bitmaps and cursors: the *)
(* elements of a pool are, at every moment, free, in use, claimed by one    *)
(* reservation that has not committed, or quarantined by one whose commit   *)
(* freed them; and whoever was promised an element will find a free one.    *)
(* An element in use becomes free only by way of quarantine: that is what   *)
(* keeps a data write of a later transaction away from a block whose        *)
(* deallocation may still be lost (minfs.cc:648-652).                       *)
(***************************************************************************)
EXTENDS Integers, FiniteSets

CONSTANTS Reservation, Element

VARIABLES
  free,        \* elements anybody may claim
  used,        \* elements in use
  claimed,     \* claimed[r]: taken by r, not yet published
  quarantined, \* quarantined[r]: given up by r, not yet free
  promised     \* number of claims promised and not yet made

poolVars == <<free, used, claimed, quarantined, promised>>

Known == free \union used \union UNION {claimed[r] \union quarantined[r] : r \in Reservation}

PoolInit ==
  /\ free \subseteq Element
  /\ used \subseteq Element \ free
  /\ claimed = [r \in Reservation |-> {}]
  /\ quarantined = [r \in Reservation |-> {}]
  /\ promised = 0

\* A promise is backed by free elements, of which some may just have joined.
Promise ==
  /\ free \subseteq free'
  /\ free' \ free \subseteq Element \ Known
  /\ promised' \in promised..Cardinality(free')
  /\ UNCHANGED <<used, claimed, quarantined>>

Withdraw ==
  /\ promised' \in 0..promised
  /\ UNCHANGED <<free, used, claimed, quarantined>>

Claim(r) ==
  \E e \in free :
    /\ promised > 0
    /\ promised' = promised - 1
    /\ free' = free \ {e}
    /\ claimed' = [claimed EXCEPT ![r] = @ \union {e}]
    /\ UNCHANGED <<used, quarantined>>

\* Claims are given up, one or all.
Abandon(r) ==
  \E given \in SUBSET claimed[r] :
    /\ claimed' = [claimed EXCEPT ![r] = @ \ given]
    /\ free' = free \union given
    /\ UNCHANGED <<used, quarantined, promised>>

Publish(r) ==
  \E freed \in SUBSET used :
    /\ quarantined[r] = {}
    /\ used' = (used \ freed) \union claimed[r]
    /\ claimed' = [claimed EXCEPT ![r] = {}]
    /\ quarantined' = [quarantined EXCEPT ![r] = freed]
    /\ UNCHANGED <<free, promised>>

Release(r) ==
  /\ free' = free \union quarantined[r]
  /\ quarantined' = [quarantined EXCEPT ![r] = {}]
  /\ UNCHANGED <<used, claimed, promised>>

PoolNext ==
  \/ Promise
  \/ Withdraw
  \/ \E r \in Reservation : Claim(r) \/ Abandon(r) \/ Publish(r) \/ Release(r)

PoolSpec == PoolInit /\ [][PoolNext]_poolVars

================================================================================
