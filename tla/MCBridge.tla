------------------------------ MODULE MCBridge ------------------------------
EXTENDS Bridge, TLC

CONSTANTS v1, v2, dep, dep2, list, stop, resume

Majority == {Q \in SUBSET Node : 2 * Cardinality(Q) > Cardinality(Node)}

\* a deposit follows the listing of its asset, a resumption the stop, in one block
KindOf  == (dep :> "deposit") @@ (dep2 :> "deposit") @@ (list :> "list")
             @@ (stop :> "stop") @@ (resume :> "resume")
BlockOf == (dep :> 2) @@ (dep2 :> 3) @@ (list :> 2) @@ (stop :> 2) @@ (resume :> 2)
IndexOf == (dep :> 1) @@ (dep2 :> 1) @@ (list :> 1) @@ (stop :> 1) @@ (resume :> 2)

Kinds  == [e \in Event |-> KindOf[e]]
Blocks == [e \in Event |-> BlockOf[e]]
Indexes == [e \in Event |-> IndexOf[e]]

=============================================================================
