------------------------------- MODULE MCTokenRun -------------------------------
(***************************************************************************)
(* TokenRun for TLC: two exchanges, one with two pairs, one with one.      *)
(***************************************************************************)
EXTENDS TokenRun

MCPairs == [d \in Dex |-> IF d = "a" THEN <<"p", "q">> ELSE <<"r">>]

Composed(p, q, r) == [x \in Lp |-> IF x = "p" THEN p ELSE IF x = "q" THEN q ELSE r]

\* A pair of a pair and a weird contract; a pair of a pair that is passed over;
\* a pair of the other exchange; the same two tokens on both exchanges.
MCCompositions ==
  {Composed(<<"w", "t">>, <<"p", "w">>, <<"w", "odd">>),
   Composed(<<"t", "eoa">>, <<"p", "w">>, <<"w", "t">>),
   Composed(<<"w", "t">>, <<"t", "w">>, <<"p", "t">>),
   Composed(<<"t", "eoa">>, <<"t", "w">>, <<"w", "t">>)}
=============================================================================
