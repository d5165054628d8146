------------------------------ MODULE MCElm327 ------------------------------
EXTENDS Elm327Session

MCInit      == <<"ATZ", "ATE0", "ATH1">>
MCSlow      == <<"multiframe", "uds">>
MCBroadcast == <<"broadcast", "uds">>
MCAll       == <<"broadcast", "uds", "multiframe">>
=============================================================================
