------------------------------ MODULE MCEmbed ------------------------------
(* Embed alone, under its own fairness.                                    *)
EXTENDS Embed

=============================================================================
