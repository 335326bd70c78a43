---------------------------- MODULE MCSharedTemp ----------------------------
(***************************************************************************)
(* Small instances of SharedTemp: sessions that share a project, a         *)
(* directory, or both.  A project and a directory have the name of the     *)
(* session that is the first to use it.                                    *)
(***************************************************************************)
EXTENDS SharedTemp

Own == [s \in Session |-> s]
OneForAll == [s \in Session |-> "a"]
=============================================================================
