----------------------------- MODULE MCRenderer -----------------------------
(***************************************************************************)
(* An instance of Renderer: two callers, two hosts and three pages.        *)
(***************************************************************************)
EXTENDS Renderer

CONSTANTS c1, c2, h1, h2, p1, p2, p3

=============================================================================
