--------------------------------- MODULE MCVfs ---------------------------------
(***************************************************************************)
(* Instance of Vfs for TLC.                                                *)
(***************************************************************************)
EXTENDS Vfs

\* bootfs sd, sdraw and emu0, /x, x/y and sd:x.
MCBootArg ==
  {[form |-> "dev", name |-> n] : n \in {"sd", "sdraw", "emu0"}}
    \cup {[form |-> f, name |-> ""] : f \in {"abs", "rel", "colon"}}
===============================================================================
