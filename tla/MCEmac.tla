-------------------------------- MODULE MCEmac --------------------------------
(***************************************************************************)
(* Small instances of Emac for TLC.                                        *)
(***************************************************************************)
EXTENDS Emac

\* Two frames of the stack, of one and of two fragments.
MCTxPbufs == {"short", "long"}
MCClen == [short |-> 1, long |-> 2]
================================================================================
