------------------------------ MODULE MCReload ------------------------------
(* Two versions of each file that only load with their own partner, a base that *)
(* loads with both overlays, an overlay with no accounts and a truncated file.  *)
EXTENDS Reload

CONSTANTS old, new, empty, truncated

MCContents == {old, new, empty, truncated}
MCMappings == {old, new, empty}
MCValidPairs == {<<old, old>>, <<new, new>>, <<new, old>>, <<old, empty>>}
MCNoAccounts == {<<old, empty>>}
=============================================================================
