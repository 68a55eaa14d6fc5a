---------------------------- MODULE ChainReplies ----------------------------
(***************************************************************************)
(* What a caller can get back from FallbackChain.call: the answer of a     *)
(* provider it did not exclude, ProviderUnavailableError, or an exception  *)
(* that no provider wrapped, raised by a provider that was asked.          *)
(***************************************************************************)

\* by of a reply that nobody gave.
Nobody == "nobody"

Reply(kind, by) == [kind |-> kind, by |-> by]

Unanswered == Reply("unavailable", Nobody)

Escaped == Reply("error", Nobody)

\* The replies to a call of a chain of these members with this exclude set.
Replies(members, exclude) ==
    { Reply("answered", p) : p \in members \ exclude }
        \cup {Unanswered}
        \cup { Escaped : p \in members \ exclude }

=============================================================================
