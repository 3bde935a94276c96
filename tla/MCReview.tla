------------------------------ MODULE MCReview ------------------------------
EXTENDS Review, TLC

CONSTANTS bucket, role, east, west

MCResource == {bucket, role}
MCRegionOf == bucket :> west @@ role :> Global
MCTypeOf   == bucket :> "s3" @@ role :> "iam"
MCScanSpec == {[regions |-> {east, west}, types |-> {"s3", "iam"}]}

\* Everything can go; or the bucket is protected.
MCReport   == {[found |-> {bucket, role}, nukable |-> {bucket, role}],
               [found |-> {bucket, role}, nukable |-> {role}]}
=============================================================================
