------------------------ MODULE MCApplicationRestart ------------------------
(***************************************************************************)
(* Instances of ApplicationRestart for TLC.                                *)
(***************************************************************************)
EXTENDS ApplicationRestart, TLC

\* Two registrations that differ in every reason, and one that is refused.
SomeOptions == {
    [arguments |-> "plain", reasons |-> {"crash", "update"}],
    [arguments |-> "other", reasons |-> {"hang", "reboot"}],
    [arguments |-> "too long", reasons |-> Reason]}

Symmetry == Permutations(Thread)
=============================================================================
