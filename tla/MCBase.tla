------------------------------- MODULE MCBase -------------------------------
(* What the small instances share: the absent value, and a few grants. *)
EXTENDS Naturals, Sequences, TLC

CONSTANTS
    None,       \* a model value: no document, no row, no token
    one, two    \* model values: two callers that nothing tells apart

Interchangeable == Permutations({one, two})

Grant(segments) == [provider |-> "github", segments |-> segments]
All      == Grant(<<"repo", "**">>)
Issues   == Grant(<<"repo", "issues", "*">>)
Read     == Grant(<<"repo", "issues", "read">>)
Merge    == Grant(<<"repo", "pr", "merge">>)
AnyPart  == Grant(<<"*", "issues", "read">>)
=============================================================================
