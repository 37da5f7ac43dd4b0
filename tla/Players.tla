------------------------------ MODULE Players ------------------------------
(***************************************************************************)
(* What every part of the game knows of its players.                       *)
(***************************************************************************)

CONSTANTS
  Player,
  AlwaysLogin,   \* players with PlayerFlag_CanAlwaysLogin
  None

ASSUME PlayersAssumption == None \notin Player /\ AlwaysLogin \subseteq Player

VARIABLE online   \* Player::autoList: the players in the game

=============================================================================
