---------------------------- MODULE MCNodeAddon -----------------------------
(* A ring of eight cells whose counters wrap after two rounds. *)
EXTENDS NodeAddon
=============================================================================
