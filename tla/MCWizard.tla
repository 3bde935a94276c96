------------------------------ MODULE MCWizard ------------------------------
EXTENDS Wizard, TLC

CONSTANTS east, west, south

\* One account has more regions enabled than the server takes; another has one
\* that the first has not.
MCEnabled == {{east, west}, {south}}

\* A scan without a filter, and one with a type that a later version dropped.
MCPast == {[regions |-> {south}, types |-> {"s3"}, hours |-> Off],
           [regions |-> {south}, types |-> {"iam", "old"}, hours |-> 48]}

\* Nothing tells the two regions of the first account apart.
Swap == Permutations({east, west})
=============================================================================
