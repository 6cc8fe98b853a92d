------------------------- MODULE MCDeliveryPipeline -------------------------
(* DeliveryPipeline on small instances.                                    *)
EXTENDS DeliveryPipeline, TLC

CONSTANTS w1, w2, t1, t2, t3, t4

MCAccountOf == [d \in Delivery |-> "qq"]
MCServes == [w \in Worker |-> {"qq"}]
MCBackoff == <<1, 2>>

\* The provider rule is shared by all messages; each conversation has its own.
MCScopeOf == [r \in Rule |-> [m \in Message |->
                IF r = "provider" THEN 0 ELSE m]]

\* A window of each kind that one delivery can exhaust by retrying.
MCLimit == [r \in Rule |-> IF r = "provider" THEN 2 ELSE 1]
MCLength == [r \in Rule |-> IF r = "provider" THEN 1 ELSE 2]

=============================================================================
