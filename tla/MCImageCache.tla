---------------------------- MODULE MCImageCache ----------------------------
(***************************************************************************)
(* Two images of different sizes, of which only one fits.                  *)
(***************************************************************************)
EXTENDS ImageCache, TLC

CONSTANTS u1, u2

TwoSizes == u1 :> 2 @@ u2 :> 1
=============================================================================
