---------------------------- MODULE Subsequences ----------------------------
(***************************************************************************)
(* Filtering a slice in place, as allow does with the times of failed      *)
(* logins (rflink/login_limit.go) and deleteAPIToken with the tokens       *)
(* (rflink/http_server.go): the n-th entry that stays is moved to place n. *)
(* It is what SelectSeq computes, stated with the set of the indices that  *)
(* stay and without recursion, so that proofs can use it.                  *)
(***************************************************************************)
EXTENDS Integers, FiniteSets

\* The k-th of a finite set of numbers, in increasing order.
Nth(I, k) == CHOOSE i \in I : Cardinality({j \in I : j <= i}) = k

\* The entries of s whose indices are in I, in their order.
Kept(s, I) == [k \in 1..Cardinality(I) |-> s[Nth(I, k)]]

=============================================================================
