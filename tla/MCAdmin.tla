------------------------------- MODULE MCAdmin --------------------------------
(***************************************************************************)
(* An instance of Admin for TLC.  One invocation is any subcommand, the    *)
(* other a `list' or a `forget' that overlaps it.                          *)
(***************************************************************************)
EXTENDS Admin, TLC

CONSTANTS c1, c2

MCClient == {c1, c2}
MCTyped == (c1 :> {"list", "pair", "enable", "forget", "help", "usage", "bogus"})
           @@ (c2 :> {"list", "forget"})
===============================================================================
