----------------------------- MODULE MCFeedback -----------------------------
(***************************************************************************)
(* Small instances of Feedback.                                            *)
(***************************************************************************)
EXTENDS Feedback, TLC

FeedbackSymmetry == Permutations(Requests) \cup Permutations(Clients) \cup Permutations(Admins)
=============================================================================
