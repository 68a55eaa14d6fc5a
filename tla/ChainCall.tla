----------------------------- MODULE ChainCall ------------------------------
(***************************************************************************)
(* The promise of FallbackChain.call to whoever calls it: one reply to     *)
(* each call, given by nobody the caller excluded.  ProviderChain          *)
(* implements it; Generation, Mappings and Curriculum rely on it.          *)
(***************************************************************************)
EXTENDS ChainReplies

CONSTANTS
    Providers,   \* names of the configured providers
    Members      \* those in the chain

VARIABLES
    asking,   \* a call is under way
    barred,   \* its exclude set
    reply     \* what the last call returned

callVars == <<asking, barred, reply>>

NoReply == Reply("none", Nobody)

CallInit ==
    /\ asking = FALSE
    /\ barred = {}
    /\ reply = NoReply

Ask ==
    /\ ~asking
    /\ asking' = TRUE
    /\ \E x \in SUBSET Providers : barred' = x
    /\ reply' = NoReply

Return ==
    /\ asking
    /\ asking' = FALSE
    /\ reply' \in Replies(Members, barred)
    /\ UNCHANGED barred

CallNext == Ask \/ Return

CallSpec == CallInit /\ [][CallNext]_callVars

=============================================================================
