---------------------------- MODULE MCModeration ----------------------------
(***************************************************************************)
(* Small instances of Moderation.                                          *)
(***************************************************************************)
EXTENDS Moderation

\* All browsers belong to one craftsman, so that they compete for one flag.
OneHolder == [s \in Sessions |-> CHOOSE c \in Craftsmen : TRUE]
=============================================================================
