--------------------------- MODULE MCGeoActivation ---------------------------
(* Instances of GeoActivation for TLC. *)
EXTENDS GeoActivation, TLC

Poll   == {"loop"}
Master == {"loop", "http"}
RetryOnce  == [w \in Workers |-> 1]
RetryTwice == [w \in Workers |-> 2]

(* "big" after "big" or "small" passes the size check, "small" after "big" *)
(* does not; "bad" blocks an anchor.                                       *)
ThreeLists  == {"big", "small", "bad"}
TwoLists    == {"big", "small"}
AnchorLists == {"big", "bad"}
Sizes     == "big" :> 10 @@ "small" :> 5 @@ "bad" :> 10
SizesOf   == [c \in Lists |-> Sizes[c]]
SafeLists == Lists \ {"bad"}

AllKinds       == Kinds
CrashAndSyntax == {"crash", "syntax"}
NoKinds        == {}
=============================================================================
