----------------------------- MODULE MCClipNet -----------------------------
(* ClipNet with three clipboards.                                          *)
EXTENDS ClipNet
=============================================================================
