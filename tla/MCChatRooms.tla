---------------------------- MODULE MCChatRooms ----------------------------
(* An instance of ChatRooms for TLC: a socket that reads the history of a   *)
(* chat, another in the same namespace and one in the namespace of a chat   *)
(* that may not exist.                                                      *)
EXTENDS ChatRooms, TLC

CONSTANTS u1, s1, s2, s3, c1, c2, r1, r2

TheUserOf == s1 :> u1 @@ s2 :> u1 @@ s3 :> u1
TheNspOf == s1 :> c1 @@ s2 :> c1 @@ s3 :> c2
TheEvents ==
  {<<"enter_room", s1, c1>>, <<"leave_room", s1, c1>>, <<"kick_out", s2, c1>>,
   <<"send_message", s2, c1>>, <<"send_message", s3, c1>>}

Slots == Permutations(Request)
=============================================================================
