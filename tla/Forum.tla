-------------------------------- MODULE Forum --------------------------------
(***************************************************************************)
(* What the modules about the forum's content speak of: the rows that may   *)
(* come to be in users, posts and comments, and the requests in flight.     *)
(***************************************************************************)
CONSTANTS Users, Posts, Comments,
          Requests   \* requests in flight together
=============================================================================
