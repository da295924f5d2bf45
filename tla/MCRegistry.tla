----------------------------- MODULE MCRegistry -----------------------------
(* Registry instantiated for TLC: the inputs a main package may pass.      *)
EXTENDS Registry

\* SLIP-0132 version bytes (zprv/zpub, yprv/ypub) and a slice of length 3.
Zprv == <<4, 178, 67, 12>>
Zpub == <<4, 178, 71, 70>>
Yprv == <<4, 74, 78, 40>>
Ypub == <<4, 74, 82, 98>>

\* Custom signets with different challenges, hence different magics.
\* and a network that reuses the simnet magic (its Register must fail).
MCCustomParams ==
  {CustomSignetParams(n) : n \in {"SigNet", "SigNetB", "SigNetC", "SigNetD"}}
  \cup {NetParams("clash", "SimNet", 28, 50, <<"c","d","s","v">>,
                  <<"c","m","w","e","b">>, Zprv, Zpub)}

MCHDKeyInputs ==
  {[pub |-> Zpub, priv |-> Zprv], [pub |-> Ypub, priv |-> Yprv],
   [pub |-> Tpub, priv |-> Tprv], [pub |-> <<4, 53, 135>>, priv |-> Tprv]}

\* A network that reuses the mainnet private key ID with its own public ID.
MCRebindParams ==
  MCCustomParams \cup
    {NetParams("custom", "CustomNet", 30, 5, <<"c","d","s","v">>,
               <<"c","m","w","e","b">>, Xprv, Zpub)}

\* A network whose HRPs are written in capitals.
MCUpperCaseParams ==
  MCCustomParams \cup
    {NetParams("custom", "CustomNet", 28, 50, <<"C","D","S","V">>,
               <<"C","M","W","E","B">>, Zprv, Zpub)}
=============================================================================
