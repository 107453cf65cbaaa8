------------------------------- MODULE MCFeed -------------------------------
(***************************************************************************)
(* Instances of Feed and MexcBytes: every feed with two prices and one or  *)
(* two sizes.                                                              *)
(***************************************************************************)
EXTENDS MexcBytes

AllFeeds == Feeds
OnlyMexc == {"mexc"}
TwoPrices == {1, 2}
OneSize == {1}
TwoSizes == {1, 2}
OneStamp == {1}
BestOnly == [p \in {1} |-> 1]
=============================================================================
