--------------------------- MODULE MCBrowserConsent ---------------------------
(***************************************************************************)
(* A small instance of BrowserConsent.  POSTs are interchangeable, and so  *)
(* are the ids of grants.                                                  *)
(***************************************************************************)
EXTENDS BrowserConsent, TLC

Interchangeable == Permutations(Post) \union Permutations(GrantId)
=============================================================================
