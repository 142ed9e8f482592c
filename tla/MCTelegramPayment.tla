-------------------------- MODULE MCTelegramPayment --------------------------
(* Instances of TelegramPayment for TLC: one user, one way to pay each run. *)
EXTENDS TelegramPayment, TLC

CONSTANTS u1, card

MCPayer  == [c \in Charge |-> u1]
MCMethod == [c \in Charge |-> IF c \in card THEN "telegram_card" ELSE "telegram_stars"]

Symmetry == Permutations(Client)
=============================================================================
