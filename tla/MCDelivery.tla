----------------------------- MODULE MCDelivery ------------------------------
(***************************************************************************)
(* Instances of Delivery for TLC.  Entries of 0.334 and 0.344 h, and a     *)
(* rate of 45.505, show the roundings; 45 and 75 minutes at rates in pence *)
(* come out even.  One customer has a full address, one only a street and  *)
(* no e-mail address, one a city of its own.                               *)
(***************************************************************************)
EXTENDS Delivery

CONSTANTS r1, r2, no, high_street, leeds, ls1, mill_lane, york, acme, bolt, office

Biller == <<office, leeds, ls1>>

MCParties ==
  {[business |-> Biller,
    customer |-> [name |-> acme, email |-> "acme@", address |-> <<high_street, york, ls1>>,
                  city |-> no, postal |-> no]],
   [business |-> Biller,
    customer |-> [name |-> bolt, email |-> no, address |-> <<mill_lane>>, city |-> no, postal |-> no]],
   [business |-> Biller,
    customer |-> [name |-> bolt, email |-> "bolt@", address |-> <<mill_lane>>, city |-> leeds, postal |-> no]]}

\* In thousandths of hours and tenths of pence.
MCLineLists ==
  {<<[worked |-> 334, price |-> 60000]>>,
   <<[worked |-> 344, price |-> 60000], [worked |-> 1250, price |-> 45505]>>,
   <<[worked |-> 750, price |-> 46000], [worked |-> 1250, price |-> 60150]>>}
=============================================================================
