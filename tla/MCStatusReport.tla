--------------------------- MODULE MCStatusReport ---------------------------
(* The instance of StatusReport for TLC: parts of the list of services.     *)
EXTENDS StatusReport

PartsOfTheList ==
    {<<"geth", "connext">>, <<"xud", "lndbtc">>, <<"bitcoind", "arby", "proxy">>}
=============================================================================
