------------------------------ MODULE MCCrawl -------------------------------
(***************************************************************************)
(* An instance of Crawl for TLC.                                            *)
(***************************************************************************)
EXTENDS Crawl

\* Two of three places: there is room for a page with nothing on it.
TwoItems == {0, 2}
=============================================================================
