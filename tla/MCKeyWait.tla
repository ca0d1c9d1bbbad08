----------------------------- MODULE MCKeyWait -----------------------------
(***************************************************************************)
(* The calls ykcore.c makes: the write flag must clear within 1150 ms      *)
(* (yk_write_to_key, _yk_write), the response must be pending within 1000  *)
(* ms, with and without YK_FLAG_MAYBLOCK (yk_read_response_from_key).      *)
(***************************************************************************)
EXTENDS KeyWait

MCFlags == {"write", "pending", "wait"}

MCCalls ==
    {[max_time_ms |-> 1150, logic_and |-> FALSE,
      mask |-> {"write"}, mayBlock |-> FALSE]} \cup
    {[max_time_ms |-> 1000, logic_and |-> TRUE,
      mask |-> {"pending"}, mayBlock |-> b] : b \in BOOLEAN}
=============================================================================
