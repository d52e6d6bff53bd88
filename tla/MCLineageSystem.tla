--------------------------- MODULE MCLineageSystem ---------------------------
(* Instances of LineageSystem for TLC.                                     *)
EXTENDS LineageInvariants, TLC

CONSTANTS r1, r2, p1, p2, s1, s2, s3, mA, mB, uA, uB

(* s1 and s2 differ in code only, s3 also asks for another model, by the   *)
(* uri of a checkpoint; the catalogue knows the first model only.          *)
MCModelOf == s1 :> mA @@ s2 :> mA @@ s3 :> mB
MCUriOf   == s1 :> NoUri @@ s2 :> uA @@ s3 :> uB
MCCatalog == mA :> uA

(* The catalogue knows both models.                                        *)
MCModelOfOne == s1 :> mA
MCUriOfOne == s1 :> NoUri
MCModelOfTwo == s1 :> mA @@ s3 :> mB
MCUriOfTwo == s1 :> NoUri @@ s3 :> uB

MCFullCatalog == mA :> uA @@ mB :> uB

SharedDirectory == r1 :> p1 @@ r2 :> p1
OwnDirectories  == r1 :> p1 @@ r2 :> p2
OneRunner       == r1 :> p1
=============================================================================
