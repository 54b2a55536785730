------------------------------ MODULE MCParam ------------------------------
(* Files of up to three lines, over one name of most kinds.                 *)
EXTENDS Param

MCLines == {
  <<>>, <<"pv_use_delta">>, <<"#", "pv_use_delta", "=", "true">>, <<" ", "=", " ">>,
  <<" ", "PV_USE_DELTA", " ", "=", " ", "TRUE", " ">>,
  <<"pv_use_delta", "=", "true", " ", "#", " ", "x">>,
  <<"uv_pv_min_rate", "=", "3">>,
  <<"uv_pv_max_rate", "=", "8", "=", "9">>,
  <<"uv_pv_max_rate", "=", " ">>, <<"uv_pv_max_rate", "=", "2">>,
  <<"platform_min_bids", "=", "0", ",", "1", ",", "5", "|", "1", ",", "1", "|", "0", ",",
    "1", ",", "4", ",", "7">>,
  <<"platform_min_bids", " ", "=", "1", ",", "0", " ", ",", "9">>,
  <<"pv_step_function", "=", "5", "|", "7", "|", "3", "|", "2", "|", "9">>,
  <<"pv_step_function", "=", "5", "|", " ", "|", "7">>,
  <<"uv_step_function", "=", "6", "|">>,
  <<"win_rate_step_function", "=", "1", "|", "2", "|", "3", "|", "2", "|", "4">>,
  <<"win_rate_step_function", "=", "|">>}

MCNumbers   == [w \in {"0", "1", "2", "3", "4", "5", "6", "7", "8", "9"} |->
                  CHOOSE n \in 0..9 : ToString(n) = w]
MCLower     == ("PV_USE_DELTA" :> "pv_use_delta") @@ ("TRUE" :> "true")
MCEstimates == (0..4) \X (0..4)
=============================================================================
