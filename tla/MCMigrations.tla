---------------------------- MODULE MCMigrations ----------------------------
(* An old build with the first file only, and two builds with all of them; *)
(* their directories list the files in different orders.                   *)
EXTENDS Migrations, TLC

CONSTANTS old, new, peer

MCListing == old :> <<1>> @@ new :> <<2, 1, 3, 4>> @@ peer :> <<1, 3, 2, 4>>
=============================================================================
