----------------------------- MODULE X402GateMC -----------------------------
\* The routes the model checker gates: two at minted addresses, the dearer with
\* two entries, and one at an explicit address.
EXTENDS X402Gate, TLC

CONSTANTS cheap, dear, static, p1, p2, wallet

entries ==
  cheap     :> <<[price |-> p1, payTo |-> NULL]>>
  @@ dear   :> <<[price |-> p2, payTo |-> NULL], [price |-> p1, payTo |-> NULL]>>
  @@ static :> <<[price |-> p1, payTo |-> wallet]>>

AcceptsMC == [r \in Routes |-> entries[r]]

Interchangeable == Permutations(Requests)
=============================================================================
