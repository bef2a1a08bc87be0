-------------------------- MODULE MCTokenRotation ---------------------------
(***************************************************************************)
(* TokenRotation on small instances.  Tokens are numbered in the order in *)
(* which they are made, and the first is made for t1: any behaviour is    *)
(* one of these with its tokens and its tabs renamed, and no formula of   *)
(* TokenRotation tells two tokens, or two tabs, apart.                    *)
(***************************************************************************)
EXTENDS TokenRotation

CONSTANT t1

MCInOrder == \A k \in DOMAIN auth' : 1..k \subseteq DOMAIN auth' /\ auth'[1].tab = t1
=============================================================================
